---- MODULE Spec2Model ----
(***************************************************************************)
(* The obstacle-course racing game of src/game.js (second program of the   *)
(* file, lines 502-1935): vehicle physics, collision/track checker, camera *)
(* follower, race state machine and input handlers.                        *)
(*                                                                         *)
(* Numbers.  JavaScript doubles are modelled in fixed point:               *)
(*   lengths, velocities, factors      thousandths  (1.0   = 1000)         *)
(*   angles                            1/10000 rad  (pi    = 31416)        *)
(*   time (delta, raceTime)            milliseconds (0.1 s = 100)          *)
(*   best time (toFixed(2) strings)    hundredths of a second              *)
(* Every product is rounded to the nearest unit (Round).                   *)
(***************************************************************************)
EXTENDS Integers, Sequences, FiniteSets, TLC

(***************************************************************************)
(* Arithmetic.                                                             *)
(***************************************************************************)
Abs(a) == IF a < 0 THEN -a ELSE a

Min(a, b) == IF a < b THEN a ELSE b

Max(a, b) == IF a > b THEN a ELSE b

\* a / b rounded to the nearest integer, symmetric around 0 (b > 0).
Round(a, b) ==
    LET m == Abs(a)
        q == (m \div b) + (IF 2 * (m % b) >= b THEN 1 ELSE 0)
    IN  IF a >= 0 THEN q ELSE -q

\* THREE.MathUtils.clamp
Clamp(v, lo, hi) == Max(lo, Min(hi, v))

\* THREE.MathUtils.lerp(x, y, t) = (1 - t) * x + t * y, t in thousandths.
Lerp(x, y, t) == Round((1000 - t) * x + t * y, 1000)

\* Math.PI and its multiples, in 1/10000 rad.
Pi == 31416

HalfPi == 15708

TwoPi == 2 * Pi

\* Math.sin: angle in 1/10000 rad, result in thousandths.  The argument is
\* reduced to [-pi/2, pi/2] and the series is summed up to the x^7 term,
\* x - x^3/6 + x^5/120 - x^7/5040 = x(1 - x2/6 (1 - x2/20 (1 - x2/42))).
SinSeries(q, x2) ==
    LET t3 == 10000 - Round(x2, 42)
        t2 == 10000 - Round(Round(x2 * t3, 10000), 20)
        t1 == 10000 - Round(Round(x2 * t2, 10000), 6)
    IN  Clamp(Round(Round(q * t1, 10000), 10), -1000, 1000)

SinQuadrant(r) ==
    IF r > HalfPi THEN Pi - r ELSE IF r < -HalfPi THEN -Pi - r ELSE r

SinReduced(q) == SinSeries(q, Round(q * q, 10000))

Sin(a) == SinReduced(SinQuadrant(((a + Pi) % TwoPi) - Pi))

\* Math.cos
Cos(a) == Sin(a + HalfPi)

\* Math.sqrt on naturals (floor), by Newton's iteration.
RECURSIVE SqrtIter(_, _)
SqrtIter(n, x) ==
    LET y == (x + n \div x) \div 2
    IN  IF y >= x THEN x ELSE SqrtIter(n, y)

Sqrt(n) == IF n <= 0 THEN 0 ELSE SqrtIter(n, n)

(***************************************************************************)
(* Tuning parameters of vehicleState (src/game.js:545-559).                *)
(***************************************************************************)
maxSpeed == 25000

acceleration == 15

brakeForce == 18

\* steerSpeed is 0.8: steerSpeed * delta * 3 is 24 * delta / 10 thousandths.
steerSpeed == 8

maxSteerAngle == 1500

friction == 5

\* driftFriction is 0.95, in hundredths.
driftFriction == 95

\* driftMultiplier is 2.5, in tenths.
driftMultiplier == 25

cameraDistance == 8000

cameraHeight == 4000

cameraLookAhead == 2000

cameraSmooth == 8

\* The drift branch needs Math.abs(velocity) > 3.
driftThreshold == 3000

\* The steering is applied when Math.abs(velocity) > 0.1.
steerThreshold == 100

\* isDrifting is cleared when driftFactor < 0.1.
driftClear == 100

\* animate() clamps the frame time to 0.1 s.
maxDelta == 100

(***************************************************************************)
(* The course of createRaceTrack and createObstacles.                      *)
(***************************************************************************)
\* gameState.finishLineZ as initialised: -300.
RaceFinishLineZ == -300000

Segment(s, e, xo, w) == [start |-> s, end |-> e, xOffset |-> xo, width |-> w]

\* gameState.trackSegments as assigned by createRaceTrack.
RaceTrack ==
    << Segment(0, -50000, 0, 35000),
       Segment(-50000, -80000, 10000, 35000),
       Segment(-80000, -120000, 20000, 35000),
       Segment(-120000, -160000, 20000, 35000),
       Segment(-160000, -190000, 0, 35000),
       Segment(-190000, -230000, -20000, 35000),
       Segment(-230000, -260000, -20000, 35000),
       Segment(-260000, -280000, -10000, 35000),
       Segment(-280000, -320000, 0, 35000) >>

Tree(px, pz) == [x |-> px, z |-> pz]

obstaclePositions ==
    << Tree(-7000, -20000), Tree(5000, -30000), Tree(-2000, -45000),
       Tree(15000, -70000), Tree(25000, -80000), Tree(20000, -85000),
       Tree(15000, -110000), Tree(20000, -130000), Tree(10000, -120000),
       Tree(-5000, -170000), Tree(-15000, -180000), Tree(0, -190000),
       Tree(-25000, -210000), Tree(-20000, -230000), Tree(-12000, -245000),
       Tree(-8000, -260000), Tree(5000, -270000), Tree(0, -280000) >>

\* The trunk collision box of checkCollisions: size (1.2, 4.0, 1.2), centre
\* at the obstacle's x/z with y = 1.
trunkSize == [x |-> 1200, y |-> 4000, z |-> 1200]

trunkCentreY == 1000

\* The car box is shrunk to 75% around its centre.
carShrink == 75

(***************************************************************************)
(* The car model (assets/car.glb after car.scale.set(6, 6, 6)) is known    *)
(* to the program only through Box3.setFromObject(car).  CarModel is the   *)
(* extent of that box around car.position: half-widths along x and z, the *)
(* lowest point and the height.                                            *)
(***************************************************************************)
CarModel == [halfX |-> 1000, halfZ |-> 2000, minY |-> -300, height |-> 1800]

\* gameState.carGroundLevel = -box.min.y + 0.1, computed when the car loads.
CarGroundLevel == 100 - CarModel.minY

Vec(px, py, pz) == [x |-> px, y |-> py, z |-> pz]

\* let car: undefined until the car model has loaded.
NoCar == [undefined |-> TRUE]

\* localStorage.getItem('bestTime') without a stored time: null.
NoBest == -1

(***************************************************************************)
(* State.                                                                  *)
(***************************************************************************)
VARIABLES
    car,            \* the car object: NoCar, or [position, rotation, visible]
    loads,          \* the GLTF loads whose callback has not run yet
    modelsLoaded,   \* loadModels: modelsLoaded
    vehicleState,   \* vehicleState: kinematic and drift state, control flags
    gameState,      \* gameState: race flags, countdown, raceTime, bestTime
    trackSegments,  \* gameState.trackSegments
    finishLineZ,    \* gameState.finishLineZ
    obstacles,      \* obstacles: the trees' world positions
    camera,         \* camera: [position, direction (unit vector)]
    storage,        \* localStorage.getItem('bestTime'): NoBest or hundredths
    message,        \* messageElement: [shown, text, time, newRecord]
    buttons,        \* restart-btn / explore-btn: "absent", "inert", "live"
    mobileControls, \* mobileControls.container: "none", "shown", "hidden"
    timers,         \* pending setInterval / setTimeout callbacks
    shakes,         \* createExplosion's camera-shake intervals
    verdict,        \* what checkCollisions did in the last frame
    countdownElement, \* countdownElement: [display, textContent], and the
                    \* texts written to it since the last startCountdown
    lastEvent,      \* keys[..] and the touches: the last event of each control
    budget          \* frames, input events and restarts still to be explored

vars == << car, loads, modelsLoaded, vehicleState, gameState, trackSegments,
           finishLineZ, obstacles, camera, storage, message, buttons,
           mobileControls, timers, shakes, verdict, countdownElement,
           lastEvent, budget >>

(***************************************************************************)
(* Physics integrator: updateVehiclePhysics, up to the collision check.    *)
(***************************************************************************)
\* A target angle chosen by the left key whenever it is held.
TargetSteerLeftFirst(vs) ==
    IF vs.steeringLeft THEN maxSteerAngle
    ELSE IF vs.steeringRight THEN -maxSteerAngle ELSE 0

\* Steering: the target angle and the interpolation towards it.
TargetSteerAngle(vs) ==
    (IF vs.steeringLeft THEN maxSteerAngle ELSE 0)
    + (IF vs.steeringRight THEN -maxSteerAngle ELSE 0)

\* An interpolation ten times as fast.
SteerStepTenfold(vs, delta) ==
    Lerp(vs.steerAngle, TargetSteerAngle(vs), Round(steerSpeed * delta * 30, 10))

SteerStep(vs, delta) ==
    Lerp(vs.steerAngle, TargetSteerAngle(vs), Round(steerSpeed * delta * 3, 10))

\* The same update with the brake tested before the accelerator.
LongitudinalBrakeFirst(vs, delta) ==
    IF vs.braking THEN vs.velocity - brakeForce * delta
    ELSE IF vs.accelerating THEN vs.velocity + acceleration * delta
    ELSE IF vs.velocity > 0 THEN Max(vs.velocity - friction * delta, 0)
    ELSE IF vs.velocity < 0 THEN Min(vs.velocity + friction * delta, 0)
    ELSE vs.velocity

\* The same update with friction that is not stopped at zero.
LongitudinalUnclamped(vs, delta) ==
    IF vs.accelerating THEN vs.velocity + acceleration * delta
    ELSE IF vs.braking THEN vs.velocity - brakeForce * delta
    ELSE IF vs.velocity > 0 THEN vs.velocity - friction * delta
    ELSE IF vs.velocity < 0 THEN vs.velocity + friction * delta
    ELSE vs.velocity

\* Acceleration, braking and natural deceleration.
Longitudinal(vs, delta) ==
    IF vs.accelerating THEN vs.velocity + acceleration * delta
    ELSE IF vs.braking THEN vs.velocity - brakeForce * delta
    ELSE IF vs.velocity > 0 THEN Max(vs.velocity - friction * delta, 0)
    ELSE IF vs.velocity < 0 THEN Min(vs.velocity + friction * delta, 0)
    ELSE vs.velocity

\* A drift branch entered by the handbrake alone.
DriftByHandbrake(vs, v) == vs.handbrake

\* The condition of the drift branch, on the velocity just updated.
DriftActive(vs, v) == vs.handbrake /\ Abs(v) > driftThreshold

\* The reverse limit alone.
LimitReverse(v) == Max(v, -Round(maxSpeed * 3, 10))

\* Limit speed.
LimitSpeed(v) == Clamp(v, -Round(maxSpeed * 3, 10), maxSpeed)

\* The drift system: the fields it writes and the lateral displacement.
\* df, v2, da, dv are driftFactor, velocity, driftAngle and driftVelocity
\* as the drift branch leaves them.
DriftLateral(vs, delta, df, v2, da, dv, lateralDrift) ==
    [isDrifting |-> TRUE, driftFactor |-> df, velocity |-> v2,
     driftAngle |-> da, driftVelocity |-> dv,
     dx |-> Round(Round(Cos(vs.rotation) * lateralDrift, 1000) * df, 1000),
     dz |-> -Round(Round(Sin(vs.rotation) * lateralDrift, 1000) * df, 1000)]

DriftAngles(vs, delta, df, v2, da, dv) ==
    DriftLateral(vs, delta, df, v2, da, dv,
                 Round(Round(Sin(da) * dv, 1000) * delta, 1000))

\* The drift branch without Math.min on driftFactor.
DriftOnUncapped(vs, delta, v2) ==
    LET steering == vs.steeringLeft \/ vs.steeringRight
        driftDirection == IF vs.steeringLeft THEN 1 ELSE -1
    IN  DriftAngles(vs, delta, vs.driftFactor + delta * 3, v2,
                    IF steering
                    THEN vs.driftAngle + Round(driftDirection * v2 * delta, 2000)
                    ELSE vs.driftAngle,
                    IF steering THEN Round(v2 * 3, 10) ELSE vs.driftVelocity)

DriftOn(vs, delta, v2) ==
    LET steering == vs.steeringLeft \/ vs.steeringRight
        driftDirection == IF vs.steeringLeft THEN 1 ELSE -1
    IN  DriftAngles(vs, delta, Min(vs.driftFactor + delta * 3, 1000), v2,
                    IF steering
                    THEN vs.driftAngle + Round(driftDirection * v2 * delta, 2000)
                    ELSE vs.driftAngle,
                    IF steering THEN Round(v2 * 3, 10) ELSE vs.driftVelocity)

\* The other branch with isDrifting cleared only at driftFactor 0.
DriftOffAtZero(vs, v, df) ==
    [isDrifting |-> IF df <= 0 THEN FALSE ELSE vs.isDrifting,
     driftFactor |-> df, velocity |-> v,
     driftAngle |-> Round(vs.driftAngle * 9, 10),
     driftVelocity |-> Round(vs.driftVelocity * 9, 10),
     dx |-> 0, dz |-> 0]

DriftOff(vs, v, df) ==
    [isDrifting |-> IF df < driftClear THEN FALSE ELSE vs.isDrifting,
     driftFactor |-> df, velocity |-> v,
     driftAngle |-> Round(vs.driftAngle * 9, 10),
     driftVelocity |-> Round(vs.driftVelocity * 9, 10),
     dx |-> 0, dz |-> 0]

DriftStep(vs, v, delta) ==
    IF DriftActive(vs, v)
    THEN DriftOn(vs, delta, Round(v * driftFriction, 100))
    ELSE DriftOff(vs, v, Max(vs.driftFactor - delta * 2, 0))

\* Apply steering: the new heading.
Heading(rotation, steerAngle, v, isDrifting, delta) ==
    IF Abs(v) > steerThreshold
    THEN LET steerMultiplier == IF isDrifting THEN driftMultiplier ELSE 10
             grip == Min(Round(Abs(v), 5), 1000)
             steerInfluence ==
                 Round(Round(steerAngle * grip, 1000) * steerMultiplier, 10)
         IN  rotation + Round(Round(steerInfluence * v, 1000) * delta, 1000)
    ELSE rotation

\* Rotation, movement and tilt of the car, given the steer angle, the
\* drift result d, the limited velocity v and the new heading rot.
MoveCar(vs, cr, groundLevel, delta, osc, steer, d, v, rot, moveDistance) ==
    [vs  |-> [vs EXCEPT !.steerAngle = steer, !.velocity = v,
                        !.rotation = rot, !.isDrifting = d.isDrifting,
                        !.driftFactor = d.driftFactor,
                        !.driftAngle = d.driftAngle,
                        !.driftVelocity = d.driftVelocity],
     car |-> [cr EXCEPT
                !.position = Vec(cr.position.x + d.dx
                                   + Round(Sin(rot) * moveDistance, 1000),
                                 groundLevel,
                                 cr.position.z + d.dz
                                   + Round(Cos(rot) * moveDistance, 1000)),
                !.rotation = Vec(IF d.isDrifting
                                   THEN -Round(d.driftFactor, 2) ELSE 0,
                                 (rot - HalfPi)
                                   + (IF d.isDrifting
                                      THEN Round(osc * d.driftFactor, 5000)
                                      ELSE 0),
                                 -Round(steer * v * (IF d.isDrifting THEN 6 ELSE 2),
                                        100000))]]

SteerCar(vs, cr, groundLevel, delta, osc, steer, d, v) ==
    MoveCar(vs, cr, groundLevel, delta, osc, steer, d, v,
            Heading(vs.rotation, steer, v, d.isDrifting, delta),
            Round(v * delta, 1000))

IntegrateDrift(vs, cr, groundLevel, delta, osc, d) ==
    SteerCar(vs, cr, groundLevel, delta, osc, SteerStep(vs, delta), d,
             LimitSpeed(d.velocity))

\* The whole integration step on (vehicleState, car); osc is
\* Math.sin(Date.now() * 0.01) in thousandths.
Integrate(vs, cr, groundLevel, delta, osc) ==
    IntegrateDrift(vs, cr, groundLevel, delta, osc,
                   DriftStep(vs, Longitudinal(vs, delta), delta))

(***************************************************************************)
(* Collision/track checker: checkCollisions.                               *)
(***************************************************************************)
\* carBoundingBox.setFromObject(car), then shrunk around its centre.  The
\* box is axis-aligned: its extent along x and z follows the car's yaw,
\* which is -pi/2 when the car is placed.
CarExtent(a, b, yaw) ==
    Round(Abs(Cos(yaw + HalfPi)) * a + Abs(Sin(yaw + HalfPi)) * b, 1000)

CarBox(cr) ==
    LET hx == Round(CarExtent(CarModel.halfX, CarModel.halfZ, cr.rotation.y)
                      * carShrink, 100)
        hz == Round(CarExtent(CarModel.halfZ, CarModel.halfX, cr.rotation.y)
                      * carShrink, 100)
        hy == Round(CarModel.height * carShrink, 200)
        cy == cr.position.y + CarModel.minY + Round(CarModel.height, 2)
    IN  [min |-> Vec(cr.position.x - hx, cy - hy, cr.position.z - hz),
         max |-> Vec(cr.position.x + hx, cy + hy, cr.position.z + hz)]

\* obstacleBB.setFromCenterAndSize(obstacleCenter, trunkSize)
ObstacleBox(tree) ==
    [min |-> Vec(tree.x - Round(trunkSize.x, 2),
                 trunkCentreY - Round(trunkSize.y, 2),
                 tree.z - Round(trunkSize.z, 2)),
     max |-> Vec(tree.x + Round(trunkSize.x, 2),
                 trunkCentreY + Round(trunkSize.y, 2),
                 tree.z + Round(trunkSize.z, 2))]

\* Box3.intersectsBox
IntersectsBox(a, b) ==
    ~ (\/ b.max.x < a.min.x \/ b.min.x > a.max.x
       \/ b.max.y < a.min.y \/ b.min.y > a.max.y
       \/ b.max.z < a.min.z \/ b.min.z > a.max.z)

\* for (let obstacle of obstacles): TRUE at the first box that is hit.
RECURSIVE HitsObstacle(_, _, _)
HitsObstacle(box, obs, i) ==
    IF i > Len(obs) THEN FALSE
    ELSE IF IntersectsBox(box, ObstacleBox(obs[i])) THEN TRUE
    ELSE HitsObstacle(box, obs, i + 1)

\* A scan that settles on the first segment whose z-range holds the car.
RECURSIVE OnTrackFirstRange(_, _, _, _)
OnTrackFirstRange(segs, carX, carZ, i) ==
    IF i > Len(segs) THEN FALSE
    ELSE LET segment == segs[i]
             leftLimit == segment.xOffset - Round(segment.width, 2)
             rightLimit == segment.xOffset + Round(segment.width, 2)
         IN  IF carZ <= segment.start /\ carZ >= segment.end
             THEN carX >= leftLimit /\ carX <= rightLimit
             ELSE OnTrackFirstRange(segs, carX, carZ, i + 1)

\* A scan whose lateral window leaves out its two borders.
RECURSIVE OnTrackInside(_, _, _, _)
OnTrackInside(segs, carX, carZ, i) ==
    IF i > Len(segs) THEN FALSE
    ELSE LET segment == segs[i]
             leftLimit == segment.xOffset - Round(segment.width, 2)
             rightLimit == segment.xOffset + Round(segment.width, 2)
         IN  IF /\ carZ <= segment.start /\ carZ >= segment.end
                /\ carX > leftLimit /\ carX < rightLimit
             THEN TRUE
             ELSE OnTrackInside(segs, carX, carZ, i + 1)

\* for (let segment of gameState.trackSegments): onTrack.
RECURSIVE OnTrack(_, _, _, _)
OnTrack(segs, carX, carZ, i) ==
    IF i > Len(segs) THEN FALSE
    ELSE LET segment == segs[i]
             leftLimit == segment.xOffset - Round(segment.width, 2)
             rightLimit == segment.xOffset + Round(segment.width, 2)
         IN  IF /\ carZ <= segment.start /\ carZ >= segment.end
                /\ carX >= leftLimit /\ carX <= rightLimit
             THEN TRUE
             ELSE OnTrack(segs, carX, carZ, i + 1)

\* The three tests with the track test ahead of the finish line.
CheckBoundsFirst(cr, obs, segs, finishZ) ==
    IF HitsObstacle(CarBox(cr), obs, 1) THEN "Crashed"
    ELSE IF ~ OnTrack(segs, cr.position.x, cr.position.z, 1)
            /\ cr.position.z < 0 THEN "OutOfBounds"
    ELSE IF cr.position.z < finishZ THEN "Finished"
    ELSE "Ongoing"

\* The three tests with the finish line ahead of the obstacles.
CheckFinishFirst(cr, obs, segs, finishZ) ==
    IF cr.position.z < finishZ THEN "Finished"
    ELSE IF HitsObstacle(CarBox(cr), obs, 1) THEN "Crashed"
    ELSE IF ~ OnTrack(segs, cr.position.x, cr.position.z, 1)
            /\ cr.position.z < 0 THEN "OutOfBounds"
    ELSE "Ongoing"

\* The outcome of checkCollisions for a car on the course.
CheckCollisions(cr, obs, segs, finishZ) ==
    IF HitsObstacle(CarBox(cr), obs, 1) THEN "Crashed"
    ELSE IF cr.position.z < finishZ THEN "Finished"
    ELSE IF ~ OnTrack(segs, cr.position.x, cr.position.z, 1)
            /\ cr.position.z < 0 THEN "OutOfBounds"
    ELSE "Ongoing"

(***************************************************************************)
(* Camera follower: updateCarCamera.                                       *)
(***************************************************************************)
\* Vector3.normalize, the result in thousandths.
Scaled(v, len) ==
    IF len = 0 THEN Vec(0, 0, 0)
    ELSE Vec(Round(v.x * 1000, len), Round(v.y * 1000, len),
             Round(v.z * 1000, len))

Normalize(v) == Scaled(v, Sqrt(v.x * v.x + v.y * v.y + v.z * v.z))

\* Vector3.lerp: this += (v - this) * alpha, alpha in thousandths.
LerpVec(a, b, alpha) ==
    Vec(a.x + Round((b.x - a.x) * alpha, 1000),
        a.y + Round((b.y - a.y) * alpha, 1000),
        a.z + Round((b.z - a.z) * alpha, 1000))

IdealPosition(vs, cr) ==
    LET scale == 1000 + Round(Abs(Round(vs.velocity, 10)) * 50, 1000)
    IN  Vec(cr.position.x
              + Round(Round(-Sin(vs.rotation) * cameraDistance, 1000) * scale, 1000),
            cr.position.y + Round(cameraHeight * scale, 1000),
            cr.position.z
              + Round(Round(-Cos(vs.rotation) * cameraDistance, 1000) * scale, 1000))

IdealLookAt(vs, cr) ==
    LET lookAheadDistance == cameraLookAhead + Round(Abs(vs.velocity) * 2, 10)
    IN  Vec(cr.position.x + Round(Sin(vs.rotation) * lookAheadDistance, 1000),
            cr.position.y + 1000,
            cr.position.z + Round(Cos(vs.rotation) * lookAheadDistance, 1000))

\* camera.lookAt(target) from camera position p.
LookAt(p, target) == Normalize(Vec(target.x - p.x, target.y - p.y, target.z - p.z))


\* The smoothed branch, p being the camera position after its lerp.
SmoothLookAt(cam, p, idealLookAt, alpha) ==
    [position |-> p,
     direction |-> LookAt(p, LerpVec(Vec(cam.direction.x * 10 + p.x,
                                         cam.direction.y * 10 + p.y,
                                         cam.direction.z * 10 + p.z),
                                     idealLookAt, alpha))]

\* A follower that interpolates whatever delta is.
FollowCarSmoothly(cam, idealPosition, idealLookAt, delta) ==
    SmoothLookAt(cam, LerpVec(cam.position, idealPosition, cameraSmooth * delta),
                 idealLookAt, cameraSmooth * delta)

FollowCar(cam, idealPosition, idealLookAt, delta) ==
    IF delta > 0
    THEN SmoothLookAt(cam, LerpVec(cam.position, idealPosition, cameraSmooth * delta),
                      idealLookAt, cameraSmooth * delta)
    ELSE [position |-> idealPosition,
          direction |-> LookAt(idealPosition, idealLookAt)]

UpdateCarCamera(cam, vs, cr, delta) ==
    IF cr = NoCar THEN cam
    ELSE FollowCar(cam, IdealPosition(vs, cr), IdealLookAt(vs, cr), delta)

(***************************************************************************)
(* Bounds of the exploration.                                              *)
(***************************************************************************)
\* Frames that run the integrator or the race clock.
MaxFrames == 6

\* Frames, among those, that are shorter than the 0.1 s clamp.
MaxShortFrames == 1

\* Input events that change a control flag.
MaxInputs == 2

\* Countdowns started by the player (R key, restart button).
MaxRestarts == 1

\* Input events that change no control flag: a key-down that is ignored, an
\* event that repeats the flag's value.
MaxEvents == 1

\* What is left to explore: a long run with few input events, a shorter one
\* of full-length frames with more of them, or a single race with an input
\* event that changes no flag.
Budget(f, s, i, e) ==
    [frames |-> f, shortFrames |-> s, inputs |-> i, events |-> e,
     restarts |-> MaxRestarts]

Budgets ==
    {Budget(MaxFrames, MaxShortFrames, MaxInputs - 1, 0),
     Budget(MaxFrames - 2, MaxShortFrames - 1, MaxInputs, 0),
     [Budget(MaxFrames, MaxShortFrames - 1, MaxInputs - 1, MaxEvents)
         EXCEPT !.restarts = 0]}

\* The frame times clock.getDelta() yields, after Math.min(.., 0.1).
Deltas == {0, 16, maxDelta}

\* Math.sin(Date.now() * 0.01), in thousandths.
Oscillations == {-1000, 1000}

\* Math.random() - 0.5 in the camera shake, in thousandths.
ShakeRandoms == {-500, 500}

\* What localStorage may hold for 'bestTime' when the page loads.
StoredAtLoad == {NoBest, 60, 62}

Controls == {"accelerating", "braking", "steeringLeft", "steeringRight", "handbrake"}

(***************************************************************************)
(* Race state machine: resetCar, startCountdown, startRace, gameOver,      *)
(* enableFreeRoam.                                                         *)
(***************************************************************************)
\* Number.prototype.toFixed(2) of a time in ms, as hundredths.
ToFixed2(ms) == Round(ms, 10)

\* parseFloat of a stored best time, in ms.
ParseFloat(best) == best * 10

\* resetCar: the vehicle state, the car and the camera it leaves.
ResetVehicle(vs) ==
    [vs EXCEPT !.rotation = Pi, !.velocity = 0, !.steerAngle = 0,
               !.driftAngle = 0, !.driftVelocity = 0, !.isDrifting = FALSE,
               !.driftFactor = 0]

ResetCarObject(gs) ==
    [position |-> Vec(0, gs.carGroundLevel, 0),
     rotation |-> Vec(0, -HalfPi, 0),
     visible  |-> TRUE]

\* resetCar run on car cr, vehicle state vs, camera cam.
ResetCar(gs, cr, vs, cam) ==
    IF cr = NoCar
    THEN /\ car' = cr
         /\ vehicleState' = vs
         /\ camera' = cam
    ELSE /\ car' = ResetCarObject(gs)
         /\ vehicleState' = ResetVehicle(vs)
         /\ camera' = UpdateCarCamera(cam, ResetVehicle(vs), ResetCarObject(gs), 0)

\* startCountdown, from the values the calling handler has reached.
StartCountdown(gs, cr, vs, cam) ==
    /\ ResetCar(gs, cr, vs, cam)
    /\ mobileControls' = IF mobileControls = "none" THEN "none" ELSE "hidden"
    /\ gameState' = [gs EXCEPT !.isCountingDown = TRUE, !.countdown = 3]
    /\ countdownElement' = [countdownElement EXCEPT !.display = TRUE,
                                                    !.ticks = << >>]
    /\ timers' = [timers EXCEPT !.countIntervals = @ + 1]

\* startRace
StartRace(gs) ==
    [gs EXCEPT !.isPlaying = TRUE, !.isCountingDown = FALSE,
               !.freeRoam = FALSE, !.raceTime = 0,
               !.hasWon = FALSE, !.hasLost = FALSE]

\* A comparison that also takes a time equal to the stored one.
NewRecordOrEqual(gs, stored) == stored = NoBest \/ gs.raceTime <= ParseFloat(stored)

\* gameOver: is the time a new record?
NewRecord(gs, stored) == stored = NoBest \/ gs.raceTime < ParseFloat(stored)

\* A gameOver that leaves the race on.
GameOverStateStillPlaying(gs, stored, won) ==
    [gs EXCEPT !.hasWon = won, !.hasLost = ~won,
               !.bestTime = IF won /\ NewRecord(gs, stored)
                            THEN ToFixed2(gs.raceTime) ELSE @]

\* gameOver: the flags and the best time.
GameOverState(gs, stored, won) ==
    [gs EXCEPT !.isPlaying = FALSE, !.hasWon = won, !.hasLost = ~won,
               !.bestTime = IF won /\ NewRecord(gs, stored)
                            THEN ToFixed2(gs.raceTime) ELSE @]

\* A gameOver that stores the time of every win.
GameOverStorageEveryWin(gs, stored, won) ==
    IF won THEN ToFixed2(gs.raceTime) ELSE stored

\* gameOver: localStorage's bestTime.
GameOverStorage(gs, stored, won) ==
    IF won /\ NewRecord(gs, stored) THEN ToFixed2(gs.raceTime) ELSE stored

GameOverMessage(gs, stored, won, reason) ==
    [shown |-> TRUE,
     text |-> IF won THEN "YOU WON!" ELSE reason,
     \* "Time: ${time}s", on the win message only
     time |-> IF won THEN ToFixed2(gs.raceTime) ELSE NoBest,
     newRecord |-> won /\ NewRecord(gs, stored)]

\* A stop that releases every control.
StopCarReleaseAll(vs) ==
    [k \in DOMAIN vs |-> IF k = "velocity" THEN 0
                         ELSE IF k \in Controls THEN FALSE ELSE vs[k]]

\* "Stop the car" at the end of gameOver and of enableFreeRoam.
StopCar(vs) ==
    [vs EXCEPT !.velocity = 0, !.accelerating = FALSE, !.braking = FALSE]

(***************************************************************************)
(* The course the races of Spec are run on: createRaceTrack's layout (a    *)
(* straight, an offset segment, the last segment reaching past the finish  *)
(* line, a tree beside the racing line) shortened so that a race can be    *)
(* won or lost within MaxFrames frames.  SpecCheck uses the full course.   *)
(***************************************************************************)
ShortTrack ==
    << Segment(0, -1000, 0, 4000),
       Segment(-1000, -2000, 1970, 4000),
       Segment(-2000, -4000, 0, 4000) >>

ShortObstacles == << Tree(1400, -3500) >>

ShortFinishLineZ == -2500

(***************************************************************************)
(* Initial state: the module's top-level code and init(), before any       *)
(* model has loaded.                                                       *)
(***************************************************************************)
InitVehicleState ==
    [rotation |-> 0, velocity |-> 0, steerAngle |-> 0,
     driftAngle |-> 0, driftVelocity |-> 0, isDrifting |-> FALSE,
     driftFactor |-> 0,
     accelerating |-> FALSE, braking |-> FALSE, steeringLeft |-> FALSE,
     steeringRight |-> FALSE, handbrake |-> FALSE]

InitGameState(stored) ==
    [isPlaying |-> FALSE, isCountingDown |-> FALSE, countdown |-> 3,
     raceTime |-> 0, bestTime |-> stored, hasWon |-> FALSE,
     hasLost |-> FALSE, freeRoam |-> FALSE, carGroundLevel |-> 0]

\* new THREE.PerspectiveCamera: at the origin, looking down -z.
InitCamera == [position |-> Vec(0, 0, 0), direction |-> Vec(0, 0, -1000)]

\* createUIElements: the countdown, not displayed.
InitCountdownElement == [display |-> FALSE, textContent |-> "", ticks |-> << >>]

InitCommon ==
    /\ car = NoCar
    /\ loads = {"house", "car"}
    /\ modelsLoaded = 0
    /\ vehicleState = InitVehicleState
    /\ storage \in StoredAtLoad
    /\ gameState = InitGameState(storage)
    /\ camera = InitCamera
    /\ message = [shown |-> FALSE, text |-> "", time |-> NoBest,
                  newRecord |-> FALSE]
    /\ buttons = "absent"
    /\ mobileControls = "shown"
    /\ timers = [countIntervals |-> 0, startTimeouts |-> 0, buttonTimeouts |-> 0]
    /\ shakes = << >>
    /\ verdict = "None"
    /\ countdownElement = InitCountdownElement
    /\ lastEvent = [k \in Controls |-> "none"]

Init ==
    /\ InitCommon
    /\ budget \in Budgets
    /\ trackSegments = ShortTrack
    /\ finishLineZ = ShortFinishLineZ
    /\ obstacles = ShortObstacles

course == << trackSegments, finishLineZ, obstacles >>

(***************************************************************************)
(* loadModels: the callbacks of the two loads.                             *)
(***************************************************************************)
\* checkAllModelsLoaded
CheckAllModelsLoaded(gs, cr, vs, cam) ==
    /\ modelsLoaded' = modelsLoaded + 1
    /\ IF modelsLoaded + 1 = 2
       THEN StartCountdown(gs, cr, vs, cam)
       ELSE /\ gameState' = gs
            /\ car' = cr
            /\ vehicleState' = vs
            /\ camera' = cam
            /\ UNCHANGED << mobileControls, timers, countdownElement >>

\* The house load ends: onLoad and onError both call checkAllModelsLoaded.
HouseLoaded ==
    /\ "house" \in loads
    /\ loads' = loads \ {"house"}
    /\ CheckAllModelsLoaded(gameState, car, vehicleState, camera)
    /\ UNCHANGED << course, storage, message, buttons, shakes, verdict, budget, lastEvent >>

\* The car as the onLoad callback places it.
LoadCarObject(gs) ==
    [position |-> Vec(0, gs.carGroundLevel, 0),
     rotation |-> Vec(0, -HalfPi, 0),
     visible  |-> TRUE]

\* The car load succeeds: the car is placed, the camera positioned.
CarLoaded ==
    /\ "car" \in loads
    /\ loads' = loads \ {"car"}
    /\ LET gs == [gameState EXCEPT !.carGroundLevel = CarGroundLevel]
           cr == LoadCarObject(gs)
           vs == [vehicleState EXCEPT !.rotation = Pi]
       IN  CheckAllModelsLoaded(gs, cr, vs, UpdateCarCamera(camera, vs, cr, 0))
    /\ UNCHANGED << course, storage, message, buttons, shakes, verdict, budget, lastEvent >>

\* The car load fails: car stays undefined.
CarError ==
    /\ "car" \in loads
    /\ loads' = loads \ {"car"}
    /\ CheckAllModelsLoaded(gameState, car, vehicleState, camera)
    /\ UNCHANGED << course, storage, message, buttons, shakes, verdict, budget, lastEvent >>

(***************************************************************************)
(* Timers.                                                                 *)
(***************************************************************************)
\* countdownElement.textContent = text
Show(element, text) ==
    [element EXCEPT !.textContent = text, !.ticks = Append(@, text)]

\* The text a number is shown as.
Digits(n) == CASE n = 0 -> "0" [] n = 1 -> "1" [] n = 2 -> "2" [] n = 3 -> "3"

\* A tick of startCountdown's setInterval callback.
\* A tick whose GO! sets no timeout.
CountdownTickWithoutStart ==
    /\ timers.countIntervals > 0
    /\ IF gameState.countdown > 0
       THEN /\ countdownElement' = Show(countdownElement, Digits(gameState.countdown))
            /\ gameState' = [gameState EXCEPT !.countdown = @ - 1]
            /\ UNCHANGED timers
       ELSE /\ countdownElement' = Show(countdownElement, "GO!")
            /\ timers' = [timers EXCEPT !.countIntervals = @ - 1]
            /\ UNCHANGED gameState
    /\ UNCHANGED << car, loads, modelsLoaded, vehicleState, course, camera,
                    storage, message, buttons, mobileControls, shakes,
                    verdict, budget, lastEvent >>

CountdownTick ==
    /\ timers.countIntervals > 0
    /\ IF gameState.countdown > 0
       THEN /\ countdownElement' = Show(countdownElement, Digits(gameState.countdown))
            /\ gameState' = [gameState EXCEPT !.countdown = @ - 1]
            /\ UNCHANGED timers
       ELSE /\ countdownElement' = Show(countdownElement, "GO!")
            /\ timers' = [timers EXCEPT !.countIntervals = @ - 1,
                                        !.startTimeouts = @ + 1]
            /\ UNCHANGED gameState
    /\ UNCHANGED << car, loads, modelsLoaded, vehicleState, course, camera,
                    storage, message, buttons, mobileControls, shakes,
                    verdict, budget, lastEvent >>

\* The setTimeout callback after GO!: startRace.
StartTimeout ==
    /\ timers.startTimeouts > 0
    /\ timers' = [timers EXCEPT !.startTimeouts = @ - 1]
    /\ countdownElement' = [countdownElement EXCEPT !.display = FALSE]
    /\ gameState' = StartRace(gameState)
    /\ message' = [message EXCEPT !.shown = FALSE]
    /\ mobileControls' = IF mobileControls = "none" THEN "none" ELSE "shown"
    /\ verdict' = "None"
    /\ UNCHANGED << car, loads, modelsLoaded, vehicleState, course, camera,
                    storage, buttons, shakes, budget, lastEvent >>

\* gameOver's setTimeout callback: the buttons of the win message get
\* their onclick handlers, if the message still holds them.
ButtonTimeout ==
    /\ timers.buttonTimeouts > 0
    /\ timers' = [timers EXCEPT !.buttonTimeouts = @ - 1]
    /\ buttons' = IF buttons = "absent" THEN "absent" ELSE "live"
    /\ UNCHANGED << car, loads, modelsLoaded, vehicleState, gameState, course,
                    camera, storage, message, mobileControls, shakes,
                    verdict, budget, countdownElement, lastEvent >>

\* A tick of createExplosion's shakeCamera interval i.
ShakeOffset(r, n) == Round(Round(r * 1500, 1000) * (1000 - 50 * n), 1000)

RemoveAt(seq, i) == [j \in 1 .. Len(seq) - 1 |-> IF j < i THEN seq[j] ELSE seq[j + 1]]

ShakeTick(i, rx, ry) ==
    /\ i \in DOMAIN shakes
    /\ LET sh == shakes[i]
           n  == sh.ticks + 1
       IN  IF n >= 20
           THEN /\ shakes' = RemoveAt(shakes, i)
                /\ camera' = [camera EXCEPT !.position = sh.originalPosition]
           ELSE /\ shakes' = [shakes EXCEPT ![i].ticks = n]
                /\ camera' = [camera EXCEPT
                                !.position.x = sh.originalPosition.x + ShakeOffset(rx, n),
                                !.position.y = sh.originalPosition.y + ShakeOffset(ry, n)]
    /\ UNCHANGED << car, loads, modelsLoaded, vehicleState, gameState, course,
                    storage, message, buttons, mobileControls, timers,
                    verdict, budget, countdownElement, lastEvent >>

(***************************************************************************)
(* animate: one frame.                                                     *)
(***************************************************************************)
\* The rest of a frame that has integrated: st is the integrator's result,
\* gs1 the game state with the race clock advanced, vd what checkCollisions
\* found ("None" when it did not run).
FrameOutcome(delta, gs1, st, runs, vd) ==
    LET over == vd \in {"Crashed", "Finished", "OutOfBounds"}
        won  == vd = "Finished"
        cr2  == IF vd = "Crashed"
                THEN [st.car EXCEPT !.visible = FALSE] ELSE st.car
        vs2  == IF over THEN StopCar(st.vs) ELSE st.vs
    IN  /\ car' = cr2
        /\ vehicleState' = vs2
        /\ gameState' = IF over THEN GameOverState(gs1, storage, won) ELSE gs1
        /\ storage' = IF over THEN GameOverStorage(gs1, storage, won)
                      ELSE storage
        /\ message' = IF over
                      THEN GameOverMessage(gs1, storage, won,
                               IF vd = "OutOfBounds"
                               THEN "OUT OF BOUNDS!" ELSE "YOU CRASHED!")
                      ELSE message
        /\ buttons' = IF over THEN (IF won THEN "inert" ELSE "absent")
                      ELSE buttons
        /\ timers' = IF won THEN [timers EXCEPT !.buttonTimeouts = @ + 1]
                     ELSE timers
        \* createExplosion: the shake starts from the camera position at the
        \* time of the crash
        /\ shakes' = IF vd = "Crashed"
                     THEN Append(shakes, [originalPosition |-> camera.position,
                                          ticks |-> 0])
                     ELSE shakes
        /\ camera' = UpdateCarCamera(camera, vs2, cr2, delta)
        /\ verdict' = IF runs THEN vd ELSE verdict

\* checkCollisions runs unless in free roam, and returns at once unless a
\* race is on.
FrameCheck(delta, gs1, st, runs) ==
    FrameOutcome(delta, gs1, st, runs,
                 IF runs
                 THEN CheckCollisions(st.car, obstacles, trackSegments, finishLineZ)
                 ELSE "None")

\* A frame that advances the race clock or integrates uses up the budget.
FrameBudget(delta) ==
    /\ budget.frames > 0
    /\ delta < maxDelta => budget.shortFrames > 0
    /\ budget' = [budget EXCEPT
                    !.frames = @ - 1,
                    !.shortFrames = IF delta < maxDelta THEN @ - 1 ELSE @]

RaceClockFree(gs, delta) == [gs EXCEPT !.raceTime = @ + delta]

\* animate: the race clock runs while a race is on.
RaceClock(gs, delta) ==
    IF gs.isPlaying THEN [gs EXCEPT !.raceTime = @ + delta] ELSE gs

\* updateVehiclePhysics returns at once without a car or a drive mode.
Integrates(cr, gs) == cr # NoCar /\ (gs.isPlaying \/ gs.freeRoam)

\* updateVehiclePhysics on (vehicleState, car) in the game state gs.
UpdateVehiclePhysics(vs, cr, gs, delta, osc) ==
    IF Integrates(cr, gs)
    THEN Integrate(vs, cr, gs.carGroundLevel, delta, osc)
    ELSE [vs |-> vs, car |-> cr]

\* checkCollisions returns at once without a car or a race.
CollisionsChecked(cr, gs) == cr # NoCar /\ gs.isPlaying

Frame(delta, osc) ==
    LET playing == gameState.isPlaying
        gs1 == RaceClock(gameState, delta)
        integrates == Integrates(car, gameState)
        \* the step ends with checkCollisions unless in free roam
        runs == ~ gameState.freeRoam /\ CollisionsChecked(car, gameState)
    IN  IF ~ integrates
        THEN /\ IF playing THEN FrameBudget(delta) ELSE UNCHANGED budget
             /\ gameState' = gs1
             /\ UNCHANGED << car, loads, modelsLoaded, vehicleState, course,
                             camera, storage, message, buttons,
                             mobileControls, timers, shakes, verdict,
                             countdownElement, lastEvent >>
        ELSE /\ FrameBudget(delta)
             /\ FrameCheck(delta, gs1,
                           UpdateVehiclePhysics(vehicleState, car, gameState,
                                                delta, osc),
                           runs)
             /\ UNCHANGED << loads, modelsLoaded, course, mobileControls,
                             countdownElement, lastEvent >>

(***************************************************************************)
(* Input adapter: onKeyDown, onKeyUp, handleTouchStart, handleTouchEnd,    *)
(* and the buttons of the win message.                                     *)
(***************************************************************************)
\* An input event of control k, "down" or "up", that leaves the vehicle
\* state vs.  It is counted in the budget of input events, or in that of
\* the events that change no flag.
Event(k, event, vs) ==
    /\ vehicleState' = vs
    /\ lastEvent' = [lastEvent EXCEPT ![k] = event]
    /\ IF vs # vehicleState
       THEN /\ budget.inputs > 0
            /\ budget' = [budget EXCEPT !.inputs = @ - 1]
       ELSE IF lastEvent[k] # event
       THEN /\ budget.events > 0
            /\ budget' = [budget EXCEPT !.events = @ - 1]
       ELSE UNCHANGED budget

\* A control flag is written.
SetFlag(k, value) ==
    Event(k, IF value THEN "down" ELSE "up", [vehicleState EXCEPT ![k] = value])

\* A restart test that forgets the countdown.
RestartWhenNotPlaying(gs) == ~ gs.isPlaying

\* onKeyDown: is the R key a restart?
RestartAccepted(gs) == ~ gs.isPlaying /\ ~ gs.isCountingDown

\* onKeyDown with the R key.
KeyDownR ==
    /\ RestartAccepted(gameState)
    /\ budget.restarts > 0
    /\ budget' = [budget EXCEPT !.restarts = @ - 1]
    /\ message' = [message EXCEPT !.shown = FALSE]
    /\ StartCountdown([gameState EXCEPT !.freeRoam = FALSE],
                      car, vehicleState, camera)
    /\ UNCHANGED << loads, modelsLoaded, course, storage, buttons, shakes,
                    verdict, lastEvent >>

\* onKeyDown with a key of control k (W/S/A/D/space or an arrow key).
KeyDown(k) ==
    /\ IF gameState.isPlaying \/ gameState.freeRoam
       THEN SetFlag(k, TRUE)
       ELSE Event(k, "down", vehicleState)
    /\ UNCHANGED << car, loads, modelsLoaded, gameState, course, camera,
                    storage, message, buttons, mobileControls, timers,
                    shakes, verdict, countdownElement >>

\* A key-up that is ignored outside a drive mode, as a key-down is.
KeyUpWhileDriving(k) ==
    /\ IF gameState.isPlaying \/ gameState.freeRoam
       THEN SetFlag(k, FALSE)
       ELSE Event(k, "up", vehicleState)
    /\ UNCHANGED << car, loads, modelsLoaded, gameState, course, camera,
                    storage, message, buttons, mobileControls, timers,
                    shakes, verdict, countdownElement >>

\* onKeyUp
KeyUp(k) ==
    /\ SetFlag(k, FALSE)
    /\ UNCHANGED << car, loads, modelsLoaded, gameState, course, camera,
                    storage, message, buttons, mobileControls, timers,
                    shakes, verdict, countdownElement >>

\* handleTouchStart / handleTouchEnd on a button of the mobile controls.
TouchStart(k) ==
    /\ mobileControls = "shown"
    /\ SetFlag(k, TRUE)
    /\ UNCHANGED << car, loads, modelsLoaded, gameState, course, camera,
                    storage, message, buttons, mobileControls, timers,
                    shakes, verdict, countdownElement >>

TouchEnd(k) ==
    /\ mobileControls = "shown"
    /\ SetFlag(k, FALSE)
    /\ UNCHANGED << car, loads, modelsLoaded, gameState, course, camera,
                    storage, message, buttons, mobileControls, timers,
                    shakes, verdict, countdownElement >>

\* restart-btn.onclick
ClickRestart ==
    /\ buttons = "live" /\ message.shown
    /\ budget.restarts > 0
    /\ budget' = [budget EXCEPT !.restarts = @ - 1]
    /\ message' = [message EXCEPT !.shown = FALSE]
    /\ StartCountdown(gameState, car, vehicleState, camera)
    /\ UNCHANGED << loads, modelsLoaded, course, storage, buttons, shakes,
                    verdict, lastEvent >>

\* explore-btn.onclick: enableFreeRoam
ClickExplore ==
    /\ buttons = "live" /\ message.shown
    /\ gameState' = [gameState EXCEPT !.freeRoam = TRUE, !.isPlaying = FALSE]
    /\ message' = [message EXCEPT !.shown = FALSE]
    /\ mobileControls' = IF mobileControls = "none" THEN "none" ELSE "shown"
    /\ vehicleState' = StopCar(vehicleState)
    /\ UNCHANGED << car, loads, modelsLoaded, course, camera, storage,
                    buttons, timers, shakes, verdict, budget, countdownElement, lastEvent >>

(***************************************************************************)
(* The game.                                                               *)
(***************************************************************************)
Next ==
    \/ HouseLoaded
    \/ CarLoaded
    \/ CarError
    \/ CountdownTick
    \/ StartTimeout
    \/ ButtonTimeout
    \/ \E i \in 1 .. 2, rx \in ShakeRandoms, ry \in ShakeRandoms : ShakeTick(i, rx, ry)
    \/ \E delta \in Deltas, osc \in Oscillations : Frame(delta, osc)
    \/ KeyDownR
    \/ \E k \in Controls : KeyDown(k)
    \/ \E k \in Controls : KeyUp(k)
    \/ \E k \in Controls : TouchStart(k)
    \/ \E k \in Controls : TouchEnd(k)
    \/ ClickRestart
    \/ ClickExplore

Spec == Init /\ [][Next]_vars

\* The game with its timers fired fairly: the countdown interval ticks as
\* long as it is set, and the timeout set at GO! runs out.
SpecFair == Spec /\ WF_vars(CountdownTick) /\ WF_vars(StartTimeout)


(***************************************************************************)
(* Driving.  SpecDrive starts in free roam, entered from a race won by     *)
(* holding the accelerator (WonRace, FreeRoamed), after the car has been   *)
(* driven through one of Scripts: runs of full-length frames with a set of *)
(* controls held.  Free roam runs the integrator and the camera follower   *)
(* and never checkCollisions: every script is a run of the game.           *)
(***************************************************************************)
DriveState(vs, cr, cam) == [vs |-> vs, car |-> cr, camera |-> cam]

\* updateVehiclePhysics ends with updateCarCamera(delta).
DriveCamera(st, cam, delta) ==
    DriveState(st.vs, st.car, UpdateCarCamera(cam, st.vs, st.car, delta))

\* A frame that reaches no verdict.
DriveFrame(d, groundLevel, delta, osc) ==
    DriveCamera(Integrate(d.vs, d.car, groundLevel, delta, osc), d.camera, delta)

RECURSIVE DriveFrames(_, _, _)
DriveFrames(d, groundLevel, n) ==
    IF d.car = NoCar \/ n = 0 THEN d
    ELSE DriveFrames(DriveFrame(d, groundLevel, maxDelta, 1000), groundLevel, n - 1)

\* The control flags after the key events that leave exactly flags held.
Hold(vs, flags) ==
    [k \in DOMAIN vs |-> IF k \in Controls THEN k \in flags ELSE vs[k]]

Phase(flags, n) == [flags |-> flags, frames |-> n]

RECURSIVE RunScript(_, _, _, _)
RunScript(d, groundLevel, script, i) ==
    IF i > Len(script) THEN d
    ELSE RunScript(DriveFrames([d EXCEPT !.vs = Hold(d.vs, script[i].flags)],
                               groundLevel, script[i].frames),
                   groundLevel, script, i + 1)

\* The frame in which the race is won: gameOver stops the car before the
\* camera follows it.
WinningFrame(d, st, delta) ==
    DriveState(StopCar(st.vs), st.car,
               UpdateCarCamera(d.camera, StopCar(st.vs), st.car, delta))

\* The car placed by its load, the race started, the accelerator held for
\* the six frames it takes to pass the finish line of the short course.
LoadedDrive ==
    LET gs == [InitGameState(NoBest) EXCEPT !.carGroundLevel = CarGroundLevel]
        cr == LoadCarObject(gs)
        vs == [InitVehicleState EXCEPT !.rotation = Pi]
    IN  DriveState(ResetVehicle(vs), ResetCarObject(gs),
                   UpdateCarCamera(UpdateCarCamera(InitCamera, vs, cr, 0),
                                   ResetVehicle(vs), ResetCarObject(gs), 0))

LastLap == RunScript(LoadedDrive, CarGroundLevel,
                     << Phase({"accelerating"}, 5) >>, 1)

WonRace ==
    WinningFrame(LastLap,
                 Integrate(LastLap.vs, LastLap.car, CarGroundLevel, maxDelta, 1000),
                 maxDelta)

\* gameState once that race is won and Explore has been clicked.
FreeRoamed ==
    LET gs    == [InitGameState(NoBest) EXCEPT !.carGroundLevel = CarGroundLevel,
                                               !.countdown = 0]
        raced == [StartRace(gs) EXCEPT !.raceTime = 6 * maxDelta]
    IN  [GameOverState(raced, NoBest, TRUE) EXCEPT !.freeRoam = TRUE]

\* The countdown element once a countdown has run and the race started.
CountedDown ==
    [display |-> FALSE, textContent |-> "GO!", ticks |-> << "3", "2", "1", "GO!" >>]

\* The last events of a script: a key-down of the controls of its phases
\* (the accelerator's since the race), a key-up of those no longer held.
Held(script, vs) ==
    [k \in Controls |->
        IF vs[k] THEN "down"
        ELSE IF k = "accelerating"
                \/ \E i \in DOMAIN script : k \in script[i].flags
             THEN "up"
        ELSE "none"]

Scripts ==
    { << >>,
      << Phase({"accelerating"}, 2) >>,
      << Phase({"accelerating"}, 4) >>,
      << Phase({"accelerating"}, 16) >>,
      << Phase({"accelerating"}, 17) >>,
      << Phase({"braking"}, 4) >>,
      << Phase({"accelerating", "steeringLeft"}, 5) >>,
      << Phase({"accelerating", "steeringRight"}, 5) >>,
      << Phase({"accelerating", "steeringLeft", "handbrake"}, 5) >>,
      << Phase({"accelerating", "steeringRight", "handbrake"}, 5), Phase({}, 2) >> }

\* Frames, short frames and input events explored after a script.
MaxDriveFrames == 2

MaxDriveInputs == 2

\* Restarts explored in a run of full-length frames without input events:
\* the controls held at the end of the script stay held.
MaxDriveRestarts == 2

DriveBudgets ==
    {[Budget(MaxDriveFrames, MaxShortFrames, MaxDriveInputs, 0)
         EXCEPT !.restarts = 0],
     [Budget(MaxFrames, 0, 0, 0) EXCEPT !.restarts = MaxDriveRestarts]}

\* Free roam after the race that was won.
InitFreeRoam ==
    /\ gameState = FreeRoamed
    /\ loads = {}
    /\ modelsLoaded = 2
    /\ trackSegments = ShortTrack
    /\ finishLineZ = ShortFinishLineZ
    /\ obstacles = ShortObstacles
    /\ storage = GameOverStorage([FreeRoamed EXCEPT !.bestTime = NoBest], NoBest, TRUE)
    /\ message = [shown |-> FALSE, text |-> "YOU WON!",
                  time |-> ToFixed2(FreeRoamed.raceTime), newRecord |-> TRUE]
    /\ buttons = "live"
    /\ mobileControls = "shown"
    /\ timers = [countIntervals |-> 0, startTimeouts |-> 0, buttonTimeouts |-> 0]
    /\ shakes = << >>
    /\ verdict = "Finished"
    /\ countdownElement = CountedDown

InitDrive ==
    /\ \E script \in Scripts :
          LET d == RunScript(WonRace, CarGroundLevel, script, 1)
          IN  /\ car = d.car
              /\ vehicleState = d.vs
              /\ camera = d.camera
              /\ lastEvent = Held(script, d.vs)
    /\ InitFreeRoam
    /\ budget \in DriveBudgets

NextDrive ==
    \/ CountdownTick
    \/ StartTimeout
    \/ \E delta \in Deltas, osc \in Oscillations : Frame(delta, osc)
    \/ KeyDownR
    \/ \E k \in Controls : KeyDown(k)
    \/ \E k \in Controls : KeyUp(k)
    \/ \E k \in Controls : TouchStart(k)
    \/ \E k \in Controls : TouchEnd(k)

SpecDrive == InitDrive /\ [][NextDrive]_vars


(***************************************************************************)
(* Coasting.  SpecCoast starts as SpecDrive does, with the keys of Holds   *)
(* pressed or released after the script, and runs frames of dt > 0: the    *)
(* browser calls animate again and again.                                  *)
(***************************************************************************)
\* Frames of a run of SpecCoast: enough for friction to stop a car that
\* runs at maxSpeed.
MaxCoastFrames == 55

Holds ==
    { {}, {"handbrake"}, {"steeringRight", "handbrake"},
      {"accelerating", "braking"}, {"braking"},
      {"accelerating", "handbrake"} }

\* The scripts of SpecDrive, and one that leaves the car at 1.6: a frame of
\* 0.1 s with the accelerator held takes it across the drift threshold.
CoastScripts ==
    Scripts \cup { << Phase({"accelerating"}, 5), Phase({"braking"}, 3),
                      Phase({}, 1) >> }

InitCoast ==
    /\ \E script \in CoastScripts, flags \in Holds :
          LET d == RunScript(WonRace, CarGroundLevel, script, 1)
          IN  /\ car = d.car
              /\ vehicleState = Hold(d.vs, flags)
              /\ camera = d.camera
              /\ lastEvent = Held(script, Hold(d.vs, flags))
    /\ InitFreeRoam
    /\ budget = [Budget(MaxCoastFrames, MaxShortFrames, 0, 0) EXCEPT !.restarts = 0]

NextCoast == \E delta \in Deltas \ {0}, osc \in Oscillations : Frame(delta, osc)

\* requestAnimationFrame: a frame of NextCoast is counted, and the next one
\* comes as long as frames are left to run.
NextFrame ==
    /\ budget.frames > 0
    /\ budget' \in {[budget EXCEPT !.frames = @ - 1],
                    [budget EXCEPT !.frames = @ - 1, !.shortFrames = @ - 1]}

SpecCoast == InitCoast /\ [][NextCoast]_vars /\ WF_budget(NextFrame)


(***************************************************************************)
(* checkCollisions on its own.  SpecCheck starts in a race with the car at *)
(* rest in a pose drawn around the trees, the segment borders, the start   *)
(* and the finish line of a course, and runs one frame: the car does not   *)
(* move, and checkCollisions judges the pose that was drawn.               *)
(***************************************************************************)
\* A course whose trees stand on the track, off the track and beyond the
\* finish line, on the segments of the short course.
TestObstacles == << Tree(0, -500), Tree(-2500, -1500), Tree(1400, -3500) >>

Course(segs, obs, finishZ) ==
    [trackSegments |-> segs, obstacles |-> obs, finishLineZ |-> finishZ]

Courses ==
    { Course(RaceTrack, obstaclePositions, RaceFinishLineZ),
      Course(ShortTrack, TestObstacles, ShortFinishLineZ) }

Pose(px, pz, heading) == [x |-> px, z |-> pz, heading |-> heading]

\* Distances at which the shrunk car box and a trunk box just touch, and
\* one more: 0.75 + 0.6 across the car, 1.5 + 0.6 along it.
AcrossOffsets == {-1351, -1350, 0, 1350, 1351}

AlongOffsets == {-2101, -2100, 0, 2100, 2101}

\* A long way off every segment.
FarOut == 50000

NearTree(t) ==
    {Pose(t.x + dx, t.z + dz, Pi) : dx \in AcrossOffsets, dz \in AlongOffsets}

\* The car across the track.
NearTreeAcross(t) ==
    {Pose(t.x + dx, t.z + dz, Pi + HalfPi) : dx \in AlongOffsets, dz \in AcrossOffsets}

NearSegment(sg) ==
    {Pose(px, pz, Pi) :
        px \in {sg.xOffset - Round(sg.width, 2) - 1, sg.xOffset - Round(sg.width, 2),
                sg.xOffset, sg.xOffset + Round(sg.width, 2),
                sg.xOffset + Round(sg.width, 2) + 1},
        pz \in {sg.start + 1, sg.start, Round(sg.start + sg.end, 2), sg.end,
                sg.end - 1}}

NearLine(lineZ) ==
    {Pose(px, pz, Pi) : px \in {-FarOut, 0, FarOut},
                        pz \in {lineZ + 1, lineZ, lineZ - 1}}

Poses(c) ==
    UNION {NearTree(c.obstacles[i]) : i \in DOMAIN c.obstacles}
    \cup UNION {NearSegment(c.trackSegments[i]) : i \in DOMAIN c.trackSegments}
    \cup NearLine(0) \cup NearLine(c.finishLineZ)
    \cup UNION {NearTreeAcross(c.obstacles[i]) : i \in DOMAIN c.obstacles}

\* The car at rest in pose p, as a frame of the race leaves it.
PosedCar(p) ==
    [position |-> Vec(p.x, CarGroundLevel, p.z),
     rotation |-> Vec(0, p.heading - HalfPi, 0),
     visible  |-> TRUE]

PosedVehicle(p) == [ResetVehicle(InitVehicleState) EXCEPT !.rotation = p.heading]

InitCheck ==
    /\ \E c \in Courses :
          /\ trackSegments = c.trackSegments
          /\ obstacles = c.obstacles
          /\ finishLineZ = c.finishLineZ
          /\ \E p \in Poses(c) :
                /\ car = PosedCar(p)
                /\ vehicleState = PosedVehicle(p)
                /\ camera = UpdateCarCamera(InitCamera, PosedVehicle(p), PosedCar(p), 0)
    /\ storage \in {NoBest}
    /\ gameState = StartRace([InitGameState(storage) EXCEPT
                                 !.carGroundLevel = CarGroundLevel,
                                 !.countdown = 0])
    /\ loads = {}
    /\ modelsLoaded = 2
    /\ message = [shown |-> FALSE, text |-> "", time |-> NoBest,
                  newRecord |-> FALSE]
    /\ buttons = "absent"
    /\ mobileControls = "shown"
    /\ timers = [countIntervals |-> 0, startTimeouts |-> 0, buttonTimeouts |-> 0]
    /\ shakes = << >>
    /\ verdict = "None"
    /\ countdownElement = CountedDown
    /\ lastEvent = [k \in Controls |-> "none"]
    /\ budget = [Budget(1, 1, 0, 0) EXCEPT !.restarts = 0]

NextCheck == \E delta \in Deltas, osc \in Oscillations : Frame(delta, osc)

SpecCheck == InitCheck /\ [][NextCheck]_vars


(***************************************************************************)
(* Properties of the integrator, checked under SpecDrive.                  *)
(***************************************************************************)
\* The frames of SpecDrive that have run so far.
DriveFramesRun == MaxDriveFrames - budget.frames

\* The vehicle state an integration step of frame time delta would leave.
Stepped(delta, osc) ==
    Integrate(vehicleState, car, gameState.carGroundLevel, delta, osc).vs

InSpeedRange(v) == v >= -Round(maxSpeed * 3, 10) /\ v <= maxSpeed

\* C1: velocity lies in [-0.3 * maxSpeed, maxSpeed] in every state reached
\* by integration steps under any control flags, and gameOver, enableFreeRoam
\* (both stop the car) and resetCar leave it in that range as well.
C1_VelocityInRange ==
    /\ InSpeedRange(vehicleState.velocity)
    /\ InSpeedRange(StopCar(vehicleState).velocity)
    /\ InSpeedRange(ResetVehicle(vehicleState).velocity)

\* A frame has run with the accelerator held and the speed limit was hit.
C1_Witness ==
    /\ DriveFramesRun > 0
    /\ vehicleState.accelerating
    /\ vehicleState.velocity = maxSpeed

\* C2: driftFactor lies in [0, 1] in every state reached by integration
\* steps under any control flags, and after resetCar.
C2_DriftFactorInRange ==
    /\ vehicleState.driftFactor >= 0 /\ vehicleState.driftFactor <= 1000
    /\ ResetVehicle(vehicleState).driftFactor = 0

\* A frame has run in a drift whose factor is at its cap.
C2_Witness ==
    /\ DriveFramesRun > 0
    /\ vehicleState.isDrifting /\ vehicleState.handbrake
    /\ vehicleState.driftFactor = 1000

\* Velocity after a step, against velocity v before it: strictly higher
\* below maxSpeed, maxSpeed at maxSpeed.
Faster(v, w) == (v < maxSpeed => w > v) /\ (v = maxSpeed => w = maxSpeed)

\* C3 as stated: with accelerating set, every integration step, whatever
\* the frame time and the other flags, strictly increases velocity below
\* maxSpeed and keeps it at maxSpeed.
C3_AlwaysFaster ==
    (car # NoCar /\ vehicleState.accelerating) =>
        \A delta \in Deltas, osc \in Oscillations :
            Faster(vehicleState.velocity, Stepped(delta, osc).velocity)

\* C3: with accelerating set, every integration step with dt > 0 in which
\* the drift branch is not taken (handbrake released, or |velocity| <= 3
\* once accelerated) strictly increases velocity below maxSpeed and keeps
\* it at maxSpeed, whatever braking and steering are.
C3_FasterOutsideDrift ==
    (car # NoCar /\ vehicleState.accelerating) =>
        \A delta \in Deltas \ {0}, osc \in Oscillations :
            ~ (vehicleState.handbrake
               /\ Abs(vehicleState.velocity + acceleration * delta) > driftThreshold)
            => Faster(vehicleState.velocity, Stepped(delta, osc).velocity)

\* A frame has run with the accelerator and the brake held, below maxSpeed.
C3_Witness ==
    /\ DriveFramesRun > 0
    /\ vehicleState.accelerating /\ vehicleState.braking
    /\ ~ vehicleState.handbrake
    /\ vehicleState.velocity > 0 /\ vehicleState.velocity < maxSpeed

\* C4 as stated: a step taken with the handbrake held and |velocity| <= 3
\* leaves isDrifting false, whatever the other flags are.
C4_GateOnVelocityBefore ==
    (/\ car # NoCar
     /\ vehicleState.handbrake
     /\ Abs(vehicleState.velocity) <= driftThreshold
     /\ ~ vehicleState.isDrifting) =>
        \A delta \in Deltas, osc \in Oscillations : ~ Stepped(delta, osc).isDrifting

\* The velocity the step's acceleration, braking or friction produces.
Updated(delta) ==
    IF vehicleState.accelerating THEN vehicleState.velocity + acceleration * delta
    ELSE IF vehicleState.braking THEN vehicleState.velocity - brakeForce * delta
    ELSE IF vehicleState.velocity > 0
         THEN Max(vehicleState.velocity - friction * delta, 0)
    ELSE Min(vehicleState.velocity + friction * delta, 0)

\* C4: the gate is on the velocity as the step's own acceleration, braking
\* or friction has updated it: with that |velocity| <= 3 or the handbrake
\* released a step never sets isDrifting, and with the handbrake held and
\* that |velocity| > 3 it sets it.
C4_GateOnVelocityUpdated ==
    (car # NoCar /\ ~ vehicleState.isDrifting) =>
        \A delta \in Deltas, osc \in Oscillations :
            Stepped(delta, osc).isDrifting
                <=> (vehicleState.handbrake /\ Abs(Updated(delta)) > driftThreshold)

\* A frame has run with the handbrake held at low speed, and no drift began.
C4_Witness ==
    /\ DriveFramesRun > 0
    /\ vehicleState.handbrake
    /\ vehicleState.velocity # 0
    /\ Abs(vehicleState.velocity) <= driftThreshold
    /\ ~ vehicleState.isDrifting
    /\ vehicleState.driftFactor = 0


(***************************************************************************)
(* Properties of checkCollisions, checked under SpecCheck: once the frame has*)
(* run, verdict is what checkCollisions made of the pose the car is in.    *)
(***************************************************************************)
\* Lists of up to MaxPermuted elements are tried in every order, longer
\* ones with two neighbours exchanged, with an element exchanged with the
\* first, and back to front.
MaxPermuted == 3

Reordered(seq, p) == [i \in 1 .. Len(seq) |-> seq[p[i]]]

Exchange(n, a, b) ==
    [i \in 1 .. n |-> IF i = a THEN b ELSE IF i = b THEN a ELSE i]

Reorderings(n) ==
    IF n <= MaxPermuted THEN Permutations(1 .. n)
    ELSE {Exchange(n, a, Min(a + 1, n)) : a \in 1 .. n}
         \cup {Exchange(n, 1, a) : a \in 1 .. n}
         \cup {[i \in 1 .. n |-> n + 1 - i]}

\* C5: the verdict on a pose is the same for every order of the obstacle
\* list and every order of the track-segment list.
C5_OrderIndependent ==
    verdict # "None" =>
        /\ \A p \in Reorderings(Len(obstacles)) :
              CheckCollisions(car, Reordered(obstacles, p), trackSegments,
                              finishLineZ) = verdict
        /\ \A q \in Reorderings(Len(trackSegments)) :
              CheckCollisions(car, obstacles, Reordered(trackSegments, q),
                              finishLineZ) = verdict
        /\ (Len(obstacles) <= MaxPermuted /\ Len(trackSegments) <= MaxPermuted) =>
              \A p \in Reorderings(Len(obstacles)),
                 q \in Reorderings(Len(trackSegments)) :
                    CheckCollisions(car, Reordered(obstacles, p),
                                    Reordered(trackSegments, q),
                                    finishLineZ) = verdict

\* The car is judged on track where two segments meet, inside the window
\* of the later one only.
C5_Witness ==
    /\ verdict = "Ongoing"
    /\ car.position.z < 0
    /\ \E i \in DOMAIN trackSegments, j \in DOMAIN trackSegments :
          /\ i < j
          /\ car.position.z = trackSegments[i].end
          /\ car.position.z = trackSegments[j].start
          /\ car.position.x > trackSegments[i].xOffset + Round(trackSegments[i].width, 2)
          /\ car.position.x <= trackSegments[j].xOffset + Round(trackSegments[j].width, 2)

\* The trunk box of the tree t and whether the shrunk car box meets it.
TrunkBox(t) ==
    [min |-> Vec(t.x - 600, -1000, t.z - 600),
     max |-> Vec(t.x + 600, 3000, t.z + 600)]

Meets(a, b) ==
    /\ a.min.x <= b.max.x /\ b.min.x <= a.max.x
    /\ a.min.y <= b.max.y /\ b.min.y <= a.max.y
    /\ a.min.z <= b.max.z /\ b.min.z <= a.max.z

HitsATree == \E i \in DOMAIN obstacles : Meets(CarBox(car), TrunkBox(obstacles[i]))

\* Some segment holds the car: its z within the segment's range and its x
\* within the segment's window.
InsideASegment ==
    \E i \in DOMAIN trackSegments :
        /\ car.position.z <= trackSegments[i].start
        /\ car.position.z >= trackSegments[i].end
        /\ 2 * car.position.x >= 2 * trackSegments[i].xOffset - trackSegments[i].width
        /\ 2 * car.position.x <= 2 * trackSegments[i].xOffset + trackSegments[i].width

\* C6: a car past the finish line that hits no trunk box has Finished, and
\* the race is won, whatever x is and whether or not a segment holds it.
C6_FinishedPastLine ==
    (verdict # "None" /\ car.position.z < finishLineZ /\ ~ HitsATree) =>
        /\ verdict = "Finished"
        /\ gameState.hasWon /\ ~ gameState.hasLost /\ ~ gameState.isPlaying
        /\ message.shown /\ message.text = "YOU WON!"

\* Finished far off every segment.
C6_Witness ==
    /\ verdict = "Finished"
    /\ gameState.hasWon
    /\ Abs(car.position.x) = FarOut
    /\ ~ InsideASegment

\* C7: without a crash and not past the finish line, the verdict is
\* OutOfBounds exactly when z < 0 and no segment holds the car, and Ongoing
\* otherwise; with z >= 0 it is Ongoing whatever x is.
C7_OutOfBounds ==
    (verdict # "None" /\ ~ HitsATree /\ car.position.z >= finishLineZ) =>
        /\ verdict = "OutOfBounds" <=> (car.position.z < 0 /\ ~ InsideASegment)
        /\ verdict \in {"OutOfBounds", "Ongoing"}
        /\ car.position.z >= 0 => verdict = "Ongoing"
        /\ verdict = "OutOfBounds" =>
              /\ gameState.hasLost /\ ~ gameState.hasWon /\ ~ gameState.isPlaying
              /\ message.shown /\ message.text = "OUT OF BOUNDS!"
        /\ verdict = "Ongoing" => gameState.isPlaying

\* Out of bounds one unit beyond the border of the segment the car is
\* level with.
C7_Witness ==
    /\ verdict = "OutOfBounds"
    /\ \E i \in DOMAIN trackSegments :
          /\ car.position.z < trackSegments[i].start
          /\ car.position.z > trackSegments[i].end
          /\ car.position.x = trackSegments[i].xOffset + Round(trackSegments[i].width, 2) + 1

\* C8: a car whose shrunk box meets a trunk box has Crashed, with the
\* generic crash message, also when it is past the finish line or off the
\* track.
C8_Crashed ==
    (verdict # "None" /\ HitsATree) =>
        /\ verdict = "Crashed"
        /\ gameState.hasLost /\ ~ gameState.hasWon /\ ~ gameState.isPlaying
        /\ message.shown /\ message.text = "YOU CRASHED!"
        /\ ~ car.visible

\* Crashed past the finish line.
C8_Witness ==
    /\ verdict = "Crashed"
    /\ car.position.z < finishLineZ
    /\ gameState.hasLost


(***************************************************************************)
(* Properties of the race state machine, checked under Spec.               *)
(***************************************************************************)
\* What the car's load establishes: the car's pose, the kinematic and
\* drift state, the camera pose.
LoadTimeCar ==
    [position |-> Vec(0, CarGroundLevel, 0), rotation |-> Vec(0, -HalfPi, 0),
     visible |-> TRUE]

LoadTimeVehicle == [InitVehicleState EXCEPT !.rotation = Pi]

LoadTimeCamera == UpdateCarCamera(InitCamera, LoadTimeVehicle, LoadTimeCar, 0)

Kinematics(vs) ==
    << vs.rotation, vs.velocity, vs.steerAngle, vs.driftAngle, vs.driftVelocity,
       vs.isDrifting, vs.driftFactor >>

\* A step in which startCountdown has run resetCar on a loaded car.
ResetStep == timers'.countIntervals > timers.countIntervals /\ car' # NoCar

\* C9: whatever frames, inputs and race outcomes came before, resetCar
\* leaves the car pose, the kinematic and drift state and the camera pose
\* equal to those of load time; the camera is snapped, not interpolated.
C9_ResetRestoresLoadPose ==
    [][ResetStep =>
          /\ car' = LoadTimeCar
          /\ Kinematics(vehicleState') = Kinematics(LoadTimeVehicle)
          /\ camera' = LoadTimeCamera]_vars

\* A countdown started by the player after a lost race: the car and the
\* camera are back in their load-time poses.
C9_Witness ==
    /\ gameState.isCountingDown /\ gameState.hasLost
    /\ budget.restarts < MaxRestarts
    /\ car = LoadTimeCar
    /\ Kinematics(vehicleState) = Kinematics(LoadTimeVehicle)
    /\ camera = LoadTimeCamera

\* The frame in which the race is won.
EnterWon == gameState.isPlaying /\ gameState'.hasWon /\ ~ gameState'.isPlaying

\* C10: on entering Won, without a stored best time or with a finishing
\* time strictly below it, the stored best becomes the finishing time
\* rounded to two decimals and a new record is reported; with a finishing
\* time equal to or above the stored best, storage stays as it is and no
\* new record is reported.
C10_BestTime ==
    [][EnterWon =>
          IF storage = NoBest \/ gameState'.raceTime < 10 * storage
          THEN /\ storage' = Round(gameState'.raceTime, 10)
               /\ gameState'.bestTime = storage'
               /\ message'.newRecord
          ELSE /\ storage' = storage
               /\ gameState'.bestTime = gameState.bestTime
               /\ ~ message'.newRecord]_vars

\* A race won in exactly the stored best time: no new record.
C10_Witness ==
    /\ gameState.hasWon /\ verdict = "Finished"
    /\ storage # NoBest
    /\ gameState.raceTime = 10 * storage
    /\ ~ message.newRecord


(***************************************************************************)
(* Properties of the race state machine, checked under Spec.               *)
(***************************************************************************)
\* The race state the flags of gs stand for.  A countdown keeps the hasWon
\* or hasLost of the race before it, free roam keeps hasWon.
RaceStateOf(gs) ==
    IF gs.isPlaying THEN "Racing"
    ELSE IF gs.isCountingDown THEN "CountingDown"
    ELSE IF gs.freeRoam THEN "FreeRoam"
    ELSE IF gs.hasWon THEN "Won"
    ELSE IF gs.hasLost THEN "Lost"
    ELSE "Loading"

RaceState == RaceStateOf(gameState)

Transitions ==
    {<< "Loading", "CountingDown" >>, << "CountingDown", "Racing" >>,
     << "Racing", "Won" >>, << "Racing", "Lost" >>, << "Won", "FreeRoam" >>,
     << "Won", "CountingDown" >>, << "Lost", "CountingDown" >>}

\* C11: the race state changes only along Loading -> CountingDown ->
\* Racing -> Won or Lost, Won -> FreeRoam, Won or Lost -> CountingDown.
C11_Transitions ==
    [][RaceState' # RaceState => << RaceState, RaceState' >> \in Transitions]_vars


\* A frame that has advanced the race clock or run the integrator.
FrameStep == budget'.frames < budget.frames

\* A step in which startCountdown has run.
CountdownStarted == timers'.countIntervals > timers.countIntervals

\* A restart by the player: the R key or the restart button.
RestartStep == CountdownStarted /\ budget'.restarts < budget.restarts

\* What a race leaves: its outcome, its time, the best time.
RaceRecord ==
    << gameState.hasWon, gameState.hasLost, gameState.raceTime,
       gameState.bestTime, storage, verdict >>

\* C12: in FreeRoam every frame runs the integrator on the control flags,
\* no step produces a verdict or changes hasWon, hasLost, raceTime or the
\* best time, and FreeRoam is left only by a restart, to CountingDown.
C12_FreeRoam ==
    [][RaceState = "FreeRoam" =>
          /\ FrameStep =>
                \E delta \in Deltas, osc \in Oscillations :
                    /\ vehicleState' = Stepped(delta, osc)
                    /\ car' = Integrate(vehicleState, car, gameState.carGroundLevel,
                                        delta, osc).car
          /\ RaceRecord' = RaceRecord
          /\ RaceState' # "FreeRoam" =>
                RestartStep /\ RaceState' = "CountingDown"]_vars


\* A step in which the timeout set by the GO tick has run startRace.
StartRaceStep == timers'.startTimeouts < timers.startTimeouts

\* C13: the countdown counter stays within 0..3, and every startRace comes
\* after exactly the ticks 3, 2, 1 and GO since the last startCountdown.
C13_Countdown ==
    /\ [](gameState.countdown \in 0 .. 3)
    /\ [][StartRaceStep =>
             countdownElement.ticks = << "3", "2", "1", "GO!" >>]_vars


\* The race state a frame, a reset, a restart or a timer may change.
RaceFlags ==
    << gameState.isPlaying, gameState.isCountingDown, gameState.raceTime,
       gameState.hasWon, gameState.hasLost >>

\* C14: while the car is absent, a step other than a load callback (a
\* frame, a reset, a restart, a timer) changes no kinematic or drift state
\* of the vehicle, no race state and no camera pose.
C14_NoCarNoOp ==
    [][(car = NoCar /\ car' = NoCar /\ loads' = loads) =>
          /\ Kinematics(vehicleState') = Kinematics(vehicleState)
          /\ RaceFlags' = RaceFlags
          /\ camera' = camera]_vars


\* The states after a race, and those of a race and its countdown.
AfterRace == {"Won", "Lost", "FreeRoam"}

DuringRace == {"Racing", "CountingDown"}

\* What startCountdown leaves: a countdown of 3 that has not ticked yet,
\* with one more interval pending.
NewCountdown ==
    /\ RaceState' = "CountingDown"
    /\ gameState'.countdown = 3
    /\ countdownElement'.ticks = << >>
    /\ timers'.countIntervals = timers.countIntervals + 1

\* C15: after a race (Won, Lost, FreeRoam) a press of R is accepted,
\* however many restarts came before, and starts a new countdown; in Racing
\* and in CountingDown, the delay after GO included, it is not accepted:
\* no press of R starts a countdown there.
C15_Restart ==
    /\ [](RaceState \in AfterRace => RestartAccepted(gameState))
    /\ [](RaceState \in DuringRace => ~ RestartAccepted(gameState))
    /\ [][KeyDownR => RaceState \notin DuringRace /\ NewCountdown]_vars

\* A second restart in a row: a race lost after a restart, and R pressed.
C15_Witness ==
    /\ RaceState = "CountingDown" /\ gameState.hasLost
    /\ budget.restarts = MaxDriveRestarts - 2
    /\ timers.countIntervals = 1

(***************************************************************************)
(* Properties of the race clock and of the start of a race, checked under  *)
(* Spec.                                                                   *)
(***************************************************************************)
\* The frame of this step added delta to the race clock.
ClockFrame(delta) ==
    /\ \E osc \in Oscillations : Frame(delta, osc)
    /\ gameState'.raceTime = gameState.raceTime + delta

\* C16: raceTime is 0 when a race starts; a frame while Racing adds its dt
\* to raceTime, and no other step changes it; the time recorded on entering
\* Won (kept in raceTime, shown on the win message, stored when a record) is
\* the clock with the dt of the finishing frame included.
C16_RaceTime ==
    [][/\ StartRaceStep => gameState'.raceTime = 0
       /\ (FrameStep /\ RaceState = "Racing") => \E delta \in Deltas : ClockFrame(delta)
       /\ ~ StartRaceStep /\ ~ (FrameStep /\ RaceState = "Racing")
              => gameState'.raceTime = gameState.raceTime
       /\ EnterWon =>
              \E delta \in Deltas :
                 /\ ClockFrame(delta)
                 /\ message'.time = ToFixed2(gameState.raceTime + delta)
                 /\ message'.newRecord
                       => storage' = ToFixed2(gameState.raceTime + delta)]_vars

\* A race won after six full frames, the finishing frame counted.
C16_Witness ==
    /\ RaceState = "Won"
    /\ gameState.raceTime = 6 * maxDelta
    /\ message.time = ToFixed2(6 * maxDelta)

\* C17: at every entry to Racing the vehicle is in its reset state: the car
\* at (0, carGroundLevel, 0) and visible, heading pi, velocity, steerAngle,
\* driftAngle, driftVelocity and driftFactor 0, isDrifting false.
C17_ResetAtStart ==
    [][StartRaceStep =>
          /\ car' # NoCar
          /\ car'.position = Vec(0, gameState'.carGroundLevel, 0)
          /\ car'.visible
          /\ Kinematics(vehicleState') = Kinematics(LoadTimeVehicle)]_vars

(***************************************************************************)
(* Properties of the control flags, checked under Spec.                    *)
(***************************************************************************)
ControlFlags(vs) == [k \in Controls |-> vs[k]]

\* This step is an input event: a key-down, key-up, touch-start or touch-end
\* of a control.
InputEvent ==
    \E k \in Controls : KeyDown(k) \/ KeyUp(k) \/ TouchStart(k) \/ TouchEnd(k)

\* gameOver or enableFreeRoam has run in this step.
StopStep ==
    \/ gameState.isPlaying /\ ~ gameState'.isPlaying
    \/ ~ gameState.freeRoam /\ gameState'.freeRoam

\* C18 as stated: the five control flags are changed only by input events.
C18_OnlyInputEvents ==
    [][ControlFlags(vehicleState') # ControlFlags(vehicleState)
          => InputEvent]_vars

\* C18: steeringLeft, steeringRight and handbrake are changed only by input
\* events; accelerating and braking are changed only by input events and by
\* gameOver and enableFreeRoam, which set both to false; no other step (a
\* frame without a verdict, a reset, a timer) writes a control flag.
C18_FlagWriters ==
    [][ControlFlags(vehicleState') # ControlFlags(vehicleState) =>
          \/ InputEvent
          \/ /\ StopStep
             /\ ~ vehicleState'.accelerating /\ ~ vehicleState'.braking
             /\ \A k \in Controls \ {"accelerating", "braking"} :
                   vehicleState'[k] = vehicleState[k]]_vars

\* A race ended with the accelerator and a steering key still held: the
\* verdict has released the accelerator and left the steering flag.
C18_Witness ==
    /\ RaceState \in {"Won", "Lost"}
    /\ budget.events = 0 /\ budget.restarts = MaxRestarts
    /\ lastEvent["accelerating"] = "down" /\ ~ vehicleState.accelerating
    /\ vehicleState.steeringLeft \/ vehicleState.steeringRight

\* The most recent event of control k was a down and its flag is false.
Unheld(k, vs, last) == last[k] = "down" /\ ~ vs[k]

\* C19 as stated: in any race state each flag is true if and only if the
\* most recent event mapped to it was a down event.
C19_LastWriteWins ==
    \A k \in Controls : vehicleState[k] <=> lastEvent[k] = "down"

\* C19: a flag is true only if the most recent event mapped to it was a
\* down event; it becomes false with that event a down only by a key-down
\* while neither isPlaying nor freeRoam is set, which onKeyDown ignores, or,
\* for accelerating and braking, by gameOver or enableFreeRoam.
C19_LevelTriggered ==
    /\ [](\A k \in Controls : vehicleState[k] => lastEvent[k] = "down")
    /\ [][\A k \in Controls :
             (Unheld(k, vehicleState', lastEvent')
                 /\ ~ Unheld(k, vehicleState, lastEvent)) =>
                \/ /\ KeyDown(k)
                   /\ ~ gameState.isPlaying /\ ~ gameState.freeRoam
                \/ /\ StopStep
                   /\ k \in {"accelerating", "braking"}]_vars

\* A race under way with the accelerator key pressed during the first
\* countdown and held since: the flag is still false.
C19_Witness ==
    /\ RaceState = "Racing" /\ gameState.raceTime > 0
    /\ budget.restarts = 0 /\ budget.events = 0
    /\ car # NoCar
    /\ Unheld("accelerating", vehicleState, lastEvent)

(***************************************************************************)
(* Properties of the steering, checked under SpecDrive.                    *)
(***************************************************************************)
Sign(x) == IF x > 0 THEN 1 ELSE IF x < 0 THEN -1 ELSE 0

\* Left takes precedence over right.
LeftFirst(vs) == IF vs.steeringLeft THEN 1 ELSE IF vs.steeringRight THEN -1 ELSE 0

\* Left and right cancel.
LeftMinusRight(vs) ==
    IF vs.steeringLeft = vs.steeringRight THEN 0
    ELSE IF vs.steeringLeft THEN 1 ELSE -1

\* This step is a frame in which updateVehiclePhysics has integrated.
IntegrationStep ==
    FrameStep /\ car # NoCar /\ (gameState.isPlaying \/ gameState.freeRoam)

\* The frame of this step has moved steerAngle towards target *
\* maxSteerAngle and, where its drift branch ran with a steering flag set,
\* driftAngle in the direction drift (seen from a car moving forward).
Steered(target, drift) ==
    \E delta \in Deltas :
       /\ vehicleState'.steerAngle =
             Lerp(vehicleState.steerAngle, target * maxSteerAngle,
                  Round(steerSpeed * delta * 3, 10))
       /\ \E osc \in Oscillations : Frame(delta, osc)
       /\ (/\ delta > 0
           /\ DriftActive(vehicleState, Longitudinal(vehicleState, delta))
           /\ vehicleState.steeringLeft \/ vehicleState.steeringRight)
             => Sign(vehicleState'.driftAngle - vehicleState.driftAngle)
                  = drift * Sign(Longitudinal(vehicleState, delta))

\* C20 as stated: the target steer angle is maxSteerAngle whenever
\* steeringLeft is set, -maxSteerAngle when only steeringRight is set and 0
\* when neither is set, and the drift direction follows the same precedence.
C20_LeftPrecedence ==
    [][IntegrationStep =>
          Steered(LeftFirst(vehicleState), LeftFirst(vehicleState))]_vars

\* C20: the target steer angle is maxSteerAngle when only steeringLeft is
\* set, -maxSteerAngle when only steeringRight is set, and 0 when neither or
\* both are set; the drift direction is that of the left key whenever
\* steeringLeft is set, and of the right key when only steeringRight is set.
C20_TargetSteerAngle ==
    [][IntegrationStep =>
          Steered(LeftMinusRight(vehicleState), LeftFirst(vehicleState))]_vars

\* Free roam after two frames of a drift with both steering keys held: the
\* steer angle has come back below half of maxSteerAngle.
C20_Witness ==
    /\ RaceState = "FreeRoam"
    /\ vehicleState.steeringLeft /\ vehicleState.steeringRight
    /\ vehicleState.handbrake /\ vehicleState.isDrifting
    /\ DriveFramesRun = MaxDriveFrames
    /\ vehicleState.steerAngle # 0
    /\ 2 * Abs(vehicleState.steerAngle) < maxSteerAngle

\* x lies between a and b, ends included.
Between(a, x, b) == (a <= x /\ x <= b) \/ (b <= x /\ x <= a)

\* C21: steerAngle stays within [-maxSteerAngle, maxSteerAngle] in every
\* reachable state: the fraction steerSpeed * dt * 3 of a step is at most 1
\* for dt in [0, 0.1], and a step leaves steerAngle between its old value
\* and the target, never past the target.
C21_SteerAngleInRange ==
    /\ [](Abs(vehicleState.steerAngle) <= maxSteerAngle)
    /\ [](\A delta \in Deltas : Round(steerSpeed * delta * 3, 10) <= 1000)
    /\ [][IntegrationStep =>
             Between(vehicleState.steerAngle, vehicleState'.steerAngle,
                     TargetSteerAngle(vehicleState))]_vars

\* Frames have run with the left key held since the script: steerAngle is
\* above three quarters of maxSteerAngle and below it.
C21_Witness ==
    /\ DriveFramesRun = MaxDriveFrames
    /\ vehicleState.steeringLeft /\ ~ vehicleState.steeringRight
    /\ 4 * vehicleState.steerAngle > 3 * maxSteerAngle
    /\ vehicleState.steerAngle < maxSteerAngle

(***************************************************************************)
(* Properties of a car left to itself, checked under SpecCoast.            *)
(***************************************************************************)
\* The frames of SpecCoast that have run so far.
CoastFramesRun == MaxCoastFrames - budget.frames

Coasting == ~ vehicleState.accelerating /\ ~ vehicleState.braking

\* The velocity an integration step would leave if braking were b.
SteppedBraking(b, delta, osc) ==
    Integrate([vehicleState EXCEPT !.braking = b], car,
              gameState.carGroundLevel, delta, osc).vs.velocity

\* C22: with accelerating set, braking has no effect on the velocity a step
\* leaves; with neither set, a step never changes the sign of velocity nor
\* increases |velocity|, and a velocity of 0 stays 0; with neither set and
\* dt > 0 on every frame, velocity eventually is exactly 0.
C22_Longitudinal ==
    /\ []((car # NoCar /\ vehicleState.accelerating) =>
             \A delta \in Deltas, osc \in Oscillations :
                SteppedBraking(TRUE, delta, osc) = SteppedBraking(FALSE, delta, osc))
    /\ [][(IntegrationStep /\ Coasting) =>
             /\ Sign(vehicleState'.velocity) \in {Sign(vehicleState.velocity), 0}
             /\ Abs(vehicleState'.velocity) <= Abs(vehicleState.velocity)
             /\ vehicleState.velocity = 0 => vehicleState'.velocity = 0]_vars
    /\ ([]Coasting) => <>(vehicleState.velocity = 0)

\* A car that ran at maxSpeed when the keys were released has come to rest.
C22_Witness ==
    /\ Coasting /\ ~ vehicleState.handbrake
    /\ vehicleState.velocity = 0
    /\ CoastFramesRun >= 50
    /\ lastEvent["accelerating"] = "up"
    /\ car.position.z < -40000

\* The drift condition as a test of the state: the handbrake held and
\* |velocity| > 3.
Drifts == vehicleState.handbrake /\ Abs(vehicleState.velocity) > driftThreshold

\* The drift condition as the step of frame time delta tests it, on the
\* velocity its acceleration, braking or friction has updated.
DriftsIn(delta) == vehicleState.handbrake /\ Abs(Updated(delta)) > driftThreshold

\* No frame of dt > 0 would take the drift branch.
NoDrift == \A delta \in Deltas \ {0} : ~ DriftsIn(delta)

DriftOver == vehicleState.driftFactor = 0 /\ ~ vehicleState.isDrifting

\* The frame of this step, of frame time delta, has let the drift decay:
\* driftFactor is down by 2 * dt, not below 0, and isDrifting is cleared if
\* and only if the step ends with driftFactor < 0.1.
Decayed(delta) ==
    /\ vehicleState'.driftFactor = Max(vehicleState.driftFactor - 2 * delta, 0)
    /\ vehicleState'.isDrifting
          = (vehicleState.isDrifting /\ vehicleState'.driftFactor >= driftClear)

\* C23 as stated: between two states in which the handbrake is released or
\* |velocity| <= 3 a step lets the drift decay, and once that holds for
\* good, with dt > 0 on every frame, driftFactor reaches 0 and isDrifting
\* becomes false and stays false.
C23_DecayBelowThreshold ==
    /\ [][(IntegrationStep /\ ~ Drifts /\ ~ Drifts') =>
             \E delta \in Deltas :
                Decayed(delta) /\ \E osc \in Oscillations : Frame(delta, osc)]_vars
    /\ (<>[](~ Drifts)) => <>[]DriftOver

\* C23: a step whose drift condition does not hold (handbrake released, or
\* |velocity| <= 3 once the step has updated it) lowers driftFactor by
\* 2 * dt, not below 0, and clears isDrifting in the first step that ends
\* with driftFactor < 0.1 and not before; once the condition keeps not
\* holding, with dt > 0 on every frame, driftFactor reaches 0 and
\* isDrifting becomes false and stays false.
C23_DriftDecay ==
    /\ [][IntegrationStep =>
             \E delta \in Deltas :
                /\ ~ DriftsIn(delta) => Decayed(delta)
                /\ \E osc \in Oscillations : Frame(delta, osc)]_vars
    /\ (<>[]NoDrift) => <>[]DriftOver

\* The handbrake was released in a drift at full driftFactor: five frames
\* later the drift is over and the car still rolls.
C23_Witness ==
    /\ ~ vehicleState.handbrake /\ lastEvent["handbrake"] = "up"
    /\ CoastFramesRun = 5
    /\ budget.shortFrames = MaxShortFrames
    /\ DriftOver
    /\ vehicleState.velocity > driftThreshold

(***************************************************************************)
(* Properties of the countdown and of the race flags, checked under        *)
(* SpecFair and Spec.                                                      *)
(***************************************************************************)
\* The countdown intervals and start timeouts that are pending.
Pending == timers.countIntervals + timers.startTimeouts

\* C24: with the countdown interval and the start timeout fired fairly,
\* every countdown leads to Racing, whatever input events come in between:
\* isCountingDown never stays true forever, and no step but startRace clears
\* it or takes away a pending interval or timeout.
C24_CountdownEnds ==
    /\ gameState.isCountingDown
          ~> (gameState.isPlaying /\ ~ gameState.isCountingDown)
    /\ [][(gameState.isCountingDown /\ ~ StartRaceStep) =>
             /\ gameState'.isCountingDown
             /\ Pending' >= Pending]_vars

\* A race just started, by the first countdown, with the accelerator key
\* pressed during that countdown.
C24_Witness ==
    /\ RaceState = "Racing" /\ gameState.raceTime = 0
    /\ Pending = 0 /\ budget.restarts = 0
    /\ countdownElement.ticks = << "3", "2", "1", "GO!" >>
    /\ Unheld("accelerating", vehicleState, lastEvent)

\* How many of the flags in fs are set.
FlagsSet(fs) == Cardinality({f \in fs : gameState[f]})

\* C25: in every reachable state at most one of isPlaying, isCountingDown
\* and freeRoam is true, and hasWon and hasLost are never both true.
C25_ExclusiveFlags ==
    /\ FlagsSet({"isPlaying", "isCountingDown", "freeRoam"}) <= 1
    /\ FlagsSet({"hasWon", "hasLost"}) <= 1

\* C26: at most one countdown interval (or the timeout it has set) is
\* pending at any time, so that each startCountdown causes exactly one
\* startRace; startRace runs only to end a countdown that no race and no
\* verdict has overtaken, never while a race is in progress, and raceTime is
\* never reset to 0 in mid-race.
C26_SingleCountdown ==
    /\ [](Pending <= 1)
    /\ [][StartRaceStep => RaceState = "CountingDown"]_vars
    /\ [][(gameState.isPlaying /\ gameState'.isPlaying) =>
             gameState'.raceTime >= gameState.raceTime]_vars

\* C27: once resetCar has snapped the camera on a restart, the camera keeps
\* that pose for the whole countdown: no step of the countdown that follows
\* the reset moves it.
C27_CameraKeptInCountdown ==
    [][(/\ RaceState = "CountingDown" /\ RaceState' = "CountingDown"
        /\ car # NoCar
        /\ ~ CountdownStarted) => camera' = camera]_vars


\* The race states in which the car is parked.
Parked == {"CountingDown", "Won", "Lost"}

\* A frame of time delta leaves the car and the kinematic state of the
\* vehicle as they are when the control flags are those of flags.
FrameLeavesCar(flags, delta, osc) ==
    LET st == UpdateVehiclePhysics(Hold(vehicleState, flags), car, gameState,
                                   delta, osc)
    IN  st.car = car /\ Kinematics(st.vs) = Kinematics(vehicleState)

\* C28: while the race state is CountingDown, Won or Lost, a frame leaves
\* the car position and heading, velocity, steerAngle, driftAngle,
\* driftVelocity, driftFactor and isDrifting unchanged whatever the control
\* flags are; the integrator acts only in Racing and FreeRoam.
C28_ParkedCar ==
    /\ RaceState \in Parked =>
          \A flags \in SUBSET Controls, delta \in Deltas, osc \in Oscillations :
              FrameLeavesCar(flags, delta, osc)
    /\ Integrates(car, gameState) => RaceState \in {"Racing", "FreeRoam"}


\* What checkCollisions finds when it ends a race.
Verdicts == {"Crashed", "Finished", "OutOfBounds"}

\* The outcome of a race: its flags, the best time, the last verdict.
Outcome ==
    << gameState.hasWon, gameState.hasLost, gameState.bestTime, storage,
       verdict >>

\* A step in which gameOver has run.
GameOverStep == gameState.isPlaying /\ ~ gameState'.isPlaying

\* C29: each race produces at most one verdict: once gameOver has run, no
\* step gives a verdict, updates the best time or changes hasWon or
\* hasLost until startRace runs again; the frame that enters Won or Lost
\* sets velocity to 0.
C29_OneVerdict ==
    /\ [](verdict \in Verdicts => ~ gameState.isPlaying)
    /\ [][(~ gameState.isPlaying /\ ~ StartRaceStep) => Outcome' = Outcome]_vars
    /\ [][GameOverStep =>
             /\ verdict' \in Verdicts
             /\ gameState'.hasWon # gameState'.hasLost
             /\ vehicleState'.velocity = 0]_vars

\* A race ended in a crash at speed; the player has restarted and the
\* countdown of the next race is running, the outcome still standing.
C29_Witness ==
    /\ RaceState = "CountingDown"
    /\ verdict = "Crashed"
    /\ gameState.hasLost
    /\ car # NoCar /\ car.visible
    /\ gameState.countdown < 3
    /\ vehicleState.velocity = 0


(***************************************************************************)
(* Races in sequence: a race on its last stretch, its end, a restart and   *)
(* the race after it.                                                      *)
(***************************************************************************)
\* Full-length frames the player lets pass at the start of the first race
\* before accelerating.
MaxWait == 2

\* Frames of a run of SpecWins: the last frame of the first race, and the
\* six frames of the second one with one more.
MaxWinFrames == 8

\* Input events of a run of SpecWins that change a control flag.
MaxWinInputs == 1

\* The first race, the car one frame before the finish line with the
\* accelerator held.
InitWins ==
    /\ storage \in StoredAtLoad
    /\ \E wait \in 0 .. MaxWait :
          LET d == RunScript(LoadedDrive, CarGroundLevel,
                             << Phase({}, wait), Phase({"accelerating"}, 5) >>, 1)
              gs == [InitGameState(storage) EXCEPT
                        !.carGroundLevel = CarGroundLevel, !.countdown = 0]
          IN  /\ car = d.car
              /\ vehicleState = d.vs
              /\ camera = d.camera
              /\ gameState = [StartRace(gs) EXCEPT
                                 !.raceTime = (wait + 5) * maxDelta]
    /\ lastEvent = [k \in Controls |->
                       IF k = "accelerating" THEN "down" ELSE "none"]
    /\ loads = {}
    /\ modelsLoaded = 2
    /\ trackSegments = ShortTrack
    /\ finishLineZ = ShortFinishLineZ
    /\ obstacles = ShortObstacles
    /\ message = [shown |-> FALSE, text |-> "", time |-> NoBest,
                  newRecord |-> FALSE]
    /\ buttons = "absent"
    /\ mobileControls = "shown"
    /\ timers = [countIntervals |-> 0, startTimeouts |-> 0, buttonTimeouts |-> 0]
    /\ shakes = << >>
    /\ verdict = "Ongoing"
    /\ countdownElement = CountedDown
    /\ budget = Budget(MaxWinFrames, MaxShortFrames, MaxWinInputs, 0)

NextWins ==
    \/ CountdownTick
    \/ StartTimeout
    \/ ButtonTimeout
    \/ \E delta \in Deltas, osc \in Oscillations : Frame(delta, osc)
    \/ KeyDownR
    \/ \E k \in Controls : KeyDown(k)
    \/ \E k \in Controls : KeyUp(k)
    \/ ClickRestart

SpecWins == InitWins /\ [][NextWins]_vars

\* C30: over any sequence of races the persisted best time never
\* increases, is written only in the frame that enters Won, and after every
\* win is less than or equal to that win's time rounded to two decimals.
C30_BestTimeNeverIncreases ==
    [][/\ storage' # storage =>
             /\ EnterWon
             /\ storage' # NoBest
             /\ storage = NoBest \/ storage' < storage
       /\ EnterWon =>
             /\ storage' # NoBest
             /\ storage' <= ToFixed2(gameState'.raceTime)]_vars

\* A second race, won in a time that rounds up to hundredths and is
\* slower than the best time the first race left.
C30_Witness ==
    /\ RaceState = "Won"
    /\ budget.restarts < MaxRestarts
    /\ gameState.raceTime % 10 # 0
    /\ storage # NoBest
    /\ storage < ToFixed2(gameState.raceTime)
    /\ 10 * storage < gameState.raceTime

====
